---- MODULE Spec2Model ----
(***************************************************************************)
(* State-machine model of the IDA Pro proxy: the worker pool               *)
(* (process_manager.py), the session registry with LRU eviction            *)
(* (session_manager.py) and the analysis-call path of the router           *)
(* (router.py).                                                            *)
(*                                                                         *)
(* The program state is kept in the variables below.  Every method of the  *)
(* program is an operator that maps a state record to the state record     *)
(* after the call, so that a method that calls another method is the       *)
(* composition of the two operators, exactly as in the source.  Besides    *)
(* the program state, the record after a call holds what the call          *)
(* returned or raised (ret) and what it did to the outside: the requests   *)
(* it put on the wire (sent), the workers it spawned (started), the ports  *)
(* it passed to stop_process (stopped), the processes it killed            *)
(* (terminated) and the sessions it evicted (evicted).  An action of the   *)
(* model is one complete call made by a client (or one step of the         *)
(* environment: a worker process exiting on its own).                      *)
(*                                                                         *)
(* Spec lets the clients make any call at any time.  A property of one     *)
(* call is stated over every reachable state and every input of the call.  *)
(* A property of a sequence of calls ("after open a, open b, switch a,     *)
(* open c ...") is checked under a specification that runs exactly that    *)
(* sequence, with every input left open, and logs each call in history.    *)
(***************************************************************************)
EXTENDS Integers, Sequences, FiniteSets, TLC

(* ---------------------------------------------------------------------- *)
(* Bounds of the model                                                     *)
(* ---------------------------------------------------------------------- *)

\* number of binary files on disk
NumBinaries == 3

\* number of request threads that call open_session concurrently
NumThreads == 2

\* longest tool list a worker reports
MaxTools == 2

\* number of calls made on the pool alone
MaxPoolCalls == 4

\* number of client requests the HTTP server accepts while it shuts down
MaxRequests == 2

(* ---------------------------------------------------------------------- *)
(* Program constants and input universes                                   *)
(* ---------------------------------------------------------------------- *)

\* ProcessManager.BASE_PORT
BASE_PORT == 8745

\* ProxyConfig.max_processes, the default; the model covers the
\* configurations max_processes = 1 .. DefaultMaxProcesses
DefaultMaxProcesses == 2

\* max_processes of the managers the tests with three workers build
TestMaxProcesses == 3

\* Python's None, where a string (a session id) is expected
None == "None"

\* Python's None, where a port number is expected
NoPort == 0

\* The empty string as a binary path
NoPath == <<>>

\* A canonical path is <<directory, file name>>.  Binary i lies in its own
\* directory i; the file names alternate, so binaries 1 and 3 are two
\* different files with the same basename.
PathOf(i) == <<i, IF i % 2 = 1 THEN "t1" ELSE "t2">>

\* Canonical paths of the files that exist on disk.
ExistingPaths == { PathOf(i) : i \in 1 .. NumBinaries }

\* Canonical path of a file that does not exist.
MissingPath == <<0, "t1">>

\* A path as the caller writes it: canonical path plus the spelling used
\* ("abs": already canonical, "rel": relative / with .. or symlinks).
\* Binary 1 is also opened by a non-canonical spelling.
RawPaths ==
    ((ExistingPaths \cup {MissingPath}) \X {"abs"}) \cup {<<PathOf(1), "rel">>}

\* Session ids the workers hand out in their idalib_open reply.
WorkerSessionIds == {"A", "B"}

\* The shapes of a worker's answer to a forwarded idalib_open.
OpenReplies ==
    [kind : {"ok"}, session_id : WorkerSessionIds]
        \cup { [kind |-> k, session_id |-> None] :
                 k \in {"ok_no_id", "not_success", "rpc_error", "http_fail", "bad_json"} }

\* The outcomes of forwarding an analysis tools/call to a healthy worker.
AnalysisReplies == {"result", "http_fail"}

\* Request ids used by clients (the proxy always sends id 1 to the worker).
RequestIds == {42}

\* The id the proxy puts on every request it sends to a worker; a worker
\* echoes the id of the request it answers.
ChildRequestId == 1

\* the JSON-RPC error codes _forward_to_current answers with
NoActiveSessionCode == -32001
ForwardFailedCode == -32000

\* "properties" of a tool input schema: parameter name -> its JSON type
StringParam == [type |-> "string"]
BooleanParam == [type |-> "boolean"]

\* tools as the idalib-mcp worker reports them: an analysis tool with a
\* parameter, a tool without "name" whose schema has no "properties", the
\* worker's own idalib_open and idalib_list, and a tool without
\* "inputSchema".  The worker's tools have no parameter called "session".
WorkerTools ==
    { [name |-> "decompile",
       inputSchema |-> [type |-> "object", properties |-> [addr |-> StringParam],
                        required |-> {"addr"}]],
      [inputSchema |-> [type |-> "object"]],
      [name |-> "idalib_open",
       inputSchema |-> [type |-> "object", properties |-> [input_path |-> StringParam],
                        required |-> {"input_path"}]],
      [name |-> "idalib_list"],
      [name |-> "py_eval"] }

\* the tool lists of a tools/list reply, and of the router's cache
ToolLists == UNION { [1 .. n -> WorkerTools] : n \in 0 .. MaxTools }

\* the worker's answers to tools/list: a result with a tool list, a
\* JSON-RPC error (a reply without "result"), or a failed HTTP exchange
ToolsReplies ==
    [kind : {"result"}, tools : ToolLists]
        \cup [kind : {"error", "http_fail"}, tools : {<<>>}]

\* a method that is neither initialize, tools/list, tools/call nor a
\* notification: route hands it to _forward_to_current
OtherMethods == {"resources/list"}

VARIABLES
    max_processes,        \* SessionManager.max_processes
    sessions,             \* SessionManager._sessions: session_id -> ProxySession
    binary_to_session,    \* SessionManager._binary_to_session
    port_to_session,      \* SessionManager._port_to_session
    current_session_id,   \* SessionManager._current_session_id
    lru_order,            \* SessionManager._lru_order (oldest first)
    last_accessed,        \* order of the sessions' last_accessed timestamps (oldest first)
    processes,            \* ProcessManager._processes in dict (insertion) order
    available_ports,      \* ProcessManager._available_ports
    next_port,            \* ProcessManager._next_port
    default_port,         \* ProcessManager._default_port
    phase,                \* "constructed", then "serving" (behind the server) or "library"
    script,               \* the calls still to be made when a fixed scenario is run, else Free
    history,              \* the calls made so far when a fixed scenario is run
    threads,              \* the threads in progress: position, argument, resolved path
    shutdown_called,      \* ProxyMcpServer._shutdown_called (absent counts as False)
    server_shut           \* ProxyMcpServer._server.shutdown() was called

vars == <<max_processes, sessions, binary_to_session, port_to_session,
          current_session_id, lru_order, last_accessed, processes,
          available_ports, next_port, default_port, phase, script, history,
          threads, shutdown_called, server_shut>>

(* ---------------------------------------------------------------------- *)
(* Generic helpers                                                         *)
(* ---------------------------------------------------------------------- *)

\* dict.pop(k, None) / del dict[k]
DictPop(f, k) == [x \in (DOMAIN f) \ {k} |-> f[x]]

\* dict[k] = v
DictSet(f, k, v) == [x \in (DOMAIN f) \cup {k} |-> IF x = k THEN v ELSE f[x]]

\* the empty dict
EmptyDict == [x \in {} |-> None]

\* index of the first occurrence of v in seq s, 0 if absent
RECURSIVE IndexOf(_, _, _)
IndexOf(s, v, i) ==
    IF i > Len(s) THEN 0
    ELSE IF s[i] = v THEN i
    ELSE IndexOf(s, v, i + 1)

\* list.remove(v): removes the first occurrence only
ListRemove(s, v) ==
    LET i == IndexOf(s, v, 1) IN
    IF i = 0 THEN s
    ELSE SubSeq(s, 1, i - 1) \o SubSeq(s, i + 1, Len(s))

InList(s, v) == IndexOf(s, v, 1) # 0

\* the state record the operators work on
State ==
    [ max_processes      |-> max_processes,
      sessions           |-> sessions,
      binary_to_session  |-> binary_to_session,
      port_to_session    |-> port_to_session,
      current_session_id |-> current_session_id,
      lru_order          |-> lru_order,
      last_accessed      |-> last_accessed,
      processes          |-> processes,
      available_ports    |-> available_ports,
      next_port          |-> next_port,
      default_port       |-> default_port,
      ret                |-> [kind |-> "return", value |-> None],
      sent               |-> <<>>,
      started            |-> <<>>,
      stopped            |-> <<>>,
      terminated         |-> <<>>,
      evicted            |-> <<>> ]

\* a call returns v / raises exception e
Return(st, v) == [st EXCEPT !.ret = [kind |-> "return", value |-> v]]
Raise(st, e)  == [st EXCEPT !.ret = [kind |-> "raise", value |-> e]]
Raised(st) == st.ret.kind = "raise"

(* ---------------------------------------------------------------------- *)
(* models.py                                                               *)
(* ---------------------------------------------------------------------- *)

\* Path(binary_path).resolve(): the canonical path of a raw path
Resolve(raw) == raw[1]

\* path.exists() answering True for every path
PathAlwaysExists(path) == TRUE

\* path.exists()
PathExists(path) == path \in ExistingPaths

\* Path.name
Basename(path) == path[2]

\* ProxySession.create
ProxySession_create(binary_path, process_port, ida_session_id) ==
    [ session_id     |-> Basename(binary_path) \o "-" \o ida_session_id,
      binary_path    |-> binary_path,
      binary_name    |-> Basename(binary_path),
      process_port   |-> process_port,
      ida_session_id |-> ida_session_id,
      is_current     |-> FALSE ]

\* a touch that stamps the session as the least recently accessed one
touch_oldest(st, session_id) ==
    [st EXCEPT !.last_accessed = <<session_id>> \o ListRemove(@, session_id)]

\* ProxySession.touch: last_accessed = now; the session becomes the most
\* recently accessed one.  Only the timestamp changes.
touch(st, session_id) ==
    [st EXCEPT !.last_accessed = ListRemove(@, session_id) \o <<session_id>>]

\* ProcessInfo.is_alive
is_alive(info) ==
    IF info.external THEN TRUE ELSE info.alive

(* ---------------------------------------------------------------------- *)
(* process_manager.py                                                      *)
(* ---------------------------------------------------------------------- *)

\* ProcessManager.active_ports: the keys of _processes in dict order
active_ports(st) == [i \in 1 .. Len(st.processes) |-> st.processes[i].port]

\* ProcessManager.process_count
process_count(st) == Len(st.processes)

\* position of the handle of `port` in _processes, 0 if there is none
ProcIndex(st, port) == IndexOf(active_ports(st), port, 1)

\* ProcessManager.get_process (None if absent)
get_process(st, port) ==
    IF ProcIndex(st, port) = 0 THEN None ELSE st.processes[ProcIndex(st, port)]

\* a health check that only looks whether the pool has a handle
check_process_health_known(st, port) == ProcIndex(st, port) # 0

\* ProcessManager.check_process_health
check_process_health(st, port) ==
    IF ProcIndex(st, port) = 0 THEN FALSE
    ELSE is_alive(st.processes[ProcIndex(st, port)])

\* The ports allocate_port may return: any released port (set.pop() takes an
\* arbitrary element), else _next_port.
AllocChoices(st) ==
    IF st.available_ports # {} THEN st.available_ports ELSE {st.next_port}

\* an allocate_port that never looks at the released ports
allocate_port_fresh(st, pick) ==
    Return([st EXCEPT !.next_port = @ + 1], st.next_port)

\* ProcessManager.allocate_port; `pick` is the port set.pop() yields
allocate_port(st, pick) ==
    IF st.available_ports # {}
    THEN Return([st EXCEPT !.available_ports = @ \ {pick}], pick)
    ELSE Return([st EXCEPT !.next_port = @ + 1], st.next_port)

\* a release_port that forgets the port
release_port_forgets(st, port) == st

\* ProcessManager.release_port
release_port(st, port) ==
    [st EXCEPT !.available_ports = @ \cup {port}]

\* ProcessManager.start_process; `ready` tells whether the child became
\* ready (otherwise it exited early, timed out or could not be launched).
start_process(st, pick, ready) ==
    LET a    == allocate_port(st, pick)
        port == a.ret.value
        info == [ port |-> port, external |-> FALSE, alive |-> TRUE,
                  binary_path |-> NoPath, current_ida_session |-> None ]
    IN  IF ~ready
        THEN Raise(release_port(a, port), "RuntimeError")
        ELSE Return([a EXCEPT !.processes = Append(@, info),
                              !.started = Append(@, port)], port)

\* what can become of the child of start_process: it answers the readiness
\* probe; it exits before it is ready; it is still not ready at the
\* timeout; it cannot be launched (no `uv` on the path); anything else
\* goes wrong after the launch
StartOutcomes == {"ready", "exited", "timeout", "not_launched", "error"}

\* a start_process that keeps the port when the child times out
start_process_child_leaks(st, pick, child) ==
    LET a    == allocate_port(st, pick)
        port == a.ret.value
        info == [ port |-> port, external |-> FALSE, alive |-> TRUE,
                  binary_path |-> NoPath, current_ida_session |-> None ]
    IN  IF child = "ready"
        THEN Return([a EXCEPT !.processes = Append(@, info),
                              !.started = Append(@, port)], port)
        ELSE IF child = "timeout"
        THEN Raise([a EXCEPT !.terminated = Append(@, port)], "RuntimeError")
        ELSE Raise(release_port(a, port), "RuntimeError")

\* ProcessManager.start_process, with the fate of the child spelled out:
\* on a timeout the child is terminated (process.terminate()) before the
\* port is released; every failure ends in RuntimeError
start_process_child(st, pick, child) ==
    LET a    == allocate_port(st, pick)
        port == a.ret.value
        info == [ port |-> port, external |-> FALSE, alive |-> TRUE,
                  binary_path |-> NoPath, current_ida_session |-> None ]
    IN  IF child = "ready"
        THEN Return([a EXCEPT !.processes = Append(@, info),
                              !.started = Append(@, port)], port)
        ELSE IF child = "timeout"
        THEN Raise(release_port([a EXCEPT !.terminated = Append(@, port)], port),
                   "RuntimeError")
        ELSE Raise(release_port(a, port), "RuntimeError")

\* ProcessInfo.terminate, applied to a handle already taken out of the pool
terminate(st, info) ==
    IF info.external \/ ~is_alive(info) THEN st
    ELSE [st EXCEPT !.terminated = Append(@, info.port)]

\* ProcessManager.stop_process
stop_process(st, port) ==
    LET i == ProcIndex(st, port) IN
    IF i = 0 THEN Return(st, FALSE)
    ELSE
        LET info   == st.processes[i]
            popped == [st EXCEPT !.processes = SubSeq(@, 1, i - 1) \o SubSeq(@, i + 1, Len(@)),
                                 !.stopped = Append(@, port)]
        IN  IF info.external THEN Return(popped, TRUE)
            ELSE Return(release_port(terminate(popped, info), port), TRUE)

\* the loop of stop_all over the ports it listed
RECURSIVE stop_ports(_, _)
stop_ports(st, ports) ==
    IF ports = <<>> THEN st
    ELSE stop_ports(stop_process(st, Head(ports)), Tail(ports))

\* a stop_all that passes over the handles of external workers
stop_all_spawned(st) ==
    Return(stop_ports(st, SelectSeq(active_ports(st),
                          LAMBDA q : ~st.processes[ProcIndex(st, q)].external)), None)

\* ProcessManager.stop_all
stop_all(st) == Return(stop_ports(st, active_ports(st)), None)

\* ProcessManager.forward_request up to the point where the HTTP request
\* leaves: the health check, then the request is on the wire.  The reply is
\* an input of the caller.
forward_request(st, port, request) ==
    IF ~check_process_health(st, port)
    THEN Raise(st, "RuntimeError")
    ELSE Return([st EXCEPT !.sent = Append(@, [port |-> port] @@ request)], None)

(* ---------------------------------------------------------------------- *)
(* session_manager.py                                                      *)
(* ---------------------------------------------------------------------- *)

\* an _update_lru that appends without removing the id first
update_lru_appends(st, session_id) ==
    [st EXCEPT !.lru_order = @ \o <<session_id>>]

\* SessionManager._update_lru
update_lru(st, session_id) ==
    [st EXCEPT !.lru_order = ListRemove(@, session_id) \o <<session_id>>]

\* SessionManager._get_idle_port: the first port of the pool, in dict
\* order, that has no entry in _port_to_session
RECURSIVE FirstIdle(_, _, _)
FirstIdle(ports, bound, i) ==
    IF i > Len(ports) THEN NoPort
    ELSE IF ports[i] \notin bound THEN ports[i]
    ELSE FirstIdle(ports, bound, i + 1)

\* a _get_idle_port that finds no idle process
get_idle_port_none(st) == NoPort

\* SessionManager._get_idle_port
get_idle_port(st) == FirstIdle(active_ports(st), DOMAIN st.port_to_session, 1)

\* _set_current that leaves the flag of the previous current session set
set_current_keeps_flag(st, session_id) ==
    LET named == [st EXCEPT !.current_session_id = session_id]
    IN  IF session_id \in DOMAIN named.sessions
        THEN [named EXCEPT !.sessions[session_id].is_current = TRUE]
        ELSE named

\* SessionManager._set_current
set_current(st, session_id) ==
    LET cur     == st.current_session_id
        cleared == IF cur # None /\ cur \in DOMAIN st.sessions
                   THEN [st EXCEPT !.sessions[cur].is_current = FALSE]
                   ELSE st
        named   == [cleared EXCEPT !.current_session_id = session_id]
    IN  IF session_id \in DOMAIN named.sessions
        THEN [named EXCEPT !.sessions[session_id].is_current = TRUE]
        ELSE named

\* a pop that leaves the session in the map
sessions_pop_keeps(st, session_id) == st

\* self._sessions.pop(session_id): the session object leaves the map (and
\* with it its last_accessed timestamp leaves the order of timestamps)
sessions_pop(st, session_id) ==
    [st EXCEPT !.sessions = DictPop(@, session_id),
               !.last_accessed = ListRemove(@, session_id)]

\* "Update current session if needed" taking the front of the LRU order
promote_current_front(st, removed_id) ==
    IF st.current_session_id # removed_id THEN st
    ELSE
        LET new_id == IF Len(st.lru_order) > 0 THEN st.lru_order[1] ELSE None
            s1     == [st EXCEPT !.current_session_id = new_id]
        IN  IF new_id # None /\ new_id \in DOMAIN s1.sessions
            THEN [s1 EXCEPT !.sessions[new_id].is_current = TRUE]
            ELSE s1

\* "Update current session if needed" of _evict_lru_for_reuse and close_session
promote_current(st, removed_id) ==
    IF st.current_session_id # removed_id THEN st
    ELSE
        LET new_id == IF Len(st.lru_order) > 0 THEN st.lru_order[Len(st.lru_order)] ELSE None
            s1     == [st EXCEPT !.current_session_id = new_id]
        IN  IF new_id # None /\ new_id \in DOMAIN s1.sessions
            THEN [s1 EXCEPT !.sessions[new_id].is_current = TRUE]
            ELSE s1

\* the tools/call idalib_close request built for a session
CloseRequest(session) ==
    [ id |-> ChildRequestId, method |-> "tools/call", name |-> "idalib_close",
      arguments |-> [session_id |-> session.ida_session_id] ]

\* the tools/call idalib_open request built for a binary
OpenRequest(binary_path) ==
    [ id |-> ChildRequestId, method |-> "tools/call", name |-> "idalib_open",
      arguments |-> [input_path |-> binary_path] ]

\* try: forward_request(...) except Exception: log a warning
forward_best_effort(st, port, request) ==
    LET f == forward_request(st, port, request) IN
    [f EXCEPT !.ret = st.ret]

\* an eviction that leaves the port of the evicted session in the port index
evict_lru_for_reuse_keeps_port(st) ==
    IF Len(st.lru_order) = 0 THEN Return(st, NoPort)
    ELSE
        LET oldest == st.lru_order[1] IN
        IF oldest \notin DOMAIN st.sessions
        THEN Return([st EXCEPT !.lru_order = Tail(@)], NoPort)
        ELSE
            LET session == st.sessions[oldest]
                port    == session.process_port
                closed  == forward_best_effort(st, port, CloseRequest(session))
                popped  == sessions_pop(closed, oldest)
                removed == [popped EXCEPT
                               !.binary_to_session = DictPop(@, session.binary_path),
                               !.lru_order = Tail(@),
                               !.evicted = Append(@, session)]
            IN  Return(promote_current(removed, oldest), port)

\* SessionManager._evict_lru_for_reuse; returns the port or NoPort
evict_lru_for_reuse(st) ==
    IF Len(st.lru_order) = 0 THEN Return(st, NoPort)
    ELSE
        LET oldest == st.lru_order[1] IN
        IF oldest \notin DOMAIN st.sessions
        THEN Return([st EXCEPT !.lru_order = Tail(@)], NoPort)
        ELSE
            LET session == st.sessions[oldest]
                port    == session.process_port
                closed  == forward_best_effort(st, port, CloseRequest(session))
                popped  == sessions_pop(closed, oldest)
                removed == [popped EXCEPT
                               !.binary_to_session = DictPop(@, session.binary_path),
                               !.port_to_session = DictPop(@, port),
                               !.lru_order = Tail(@),
                               !.evicted = Append(@, session)]
            IN  Return(promote_current(removed, oldest), port)

\* open_existing that re-opens the binary on the session's worker
open_existing_reopens(st, binary_path) ==
    LET session_id == st.binary_to_session[binary_path] IN
    IF session_id \notin DOMAIN st.sessions
    THEN Raise(st, "KeyError")
    ELSE
        LET f == forward_best_effort(st, st.sessions[session_id].process_port,
                                     OpenRequest(binary_path))
            s == set_current(update_lru(touch(f, session_id), session_id), session_id)
        IN  Return(s, s.sessions[session_id])

\* open_session, "Check if already open": the fast path
open_existing(st, binary_path) ==
    LET session_id == st.binary_to_session[binary_path] IN
    IF session_id \notin DOMAIN st.sessions
    THEN Raise(st, "KeyError")
    ELSE
        LET s == set_current(update_lru(touch(st, session_id), session_id), session_id)
        IN  Return(s, s.sessions[session_id])

\* select_port with the capacity test off by one (<= for <)
select_port_grows(st, pick, ready) ==
    LET idle_port == get_idle_port(st) IN
    IF idle_port # NoPort
    THEN Return(st, [port |-> idle_port, started_new_process |-> FALSE])
    ELSE IF process_count(st) <= st.max_processes
    THEN
        LET s == start_process(st, pick, ready) IN
        IF Raised(s) THEN s
        ELSE Return(s, [port |-> s.ret.value, started_new_process |-> TRUE])
    ELSE
        LET e == evict_lru_for_reuse(st) IN
        IF e.ret.value = NoPort THEN Raise(e, "RuntimeError")
        ELSE Return(e, [port |-> e.ret.value, started_new_process |-> FALSE])

\* open_session, "Try to get a process port": the three priorities.
\* Returns [port, started_new_process] or raises.
select_port(st, pick, ready) ==
    LET idle_port == get_idle_port(st) IN
    IF idle_port # NoPort
    THEN Return(st, [port |-> idle_port, started_new_process |-> FALSE])
    ELSE IF process_count(st) < st.max_processes
    THEN
        LET s == start_process(st, pick, ready) IN
        IF Raised(s) THEN s
        ELSE Return(s, [port |-> s.ret.value, started_new_process |-> TRUE])
    ELSE
        LET e == evict_lru_for_reuse(st) IN
        IF e.ret.value = NoPort THEN Raise(e, "RuntimeError")
        ELSE Return(e, [port |-> e.ret.value, started_new_process |-> FALSE])

\* a clean-up that stops the worker whether or not it was just started
open_failed_stops(st, port, started_new_process, exc) ==
    Raise(stop_process(st, port), exc)

\* open_session, the clean-up of its failure branches:
\* "if started_new_process: stop_process(port)", then raise
open_failed(st, port, started_new_process, exc) ==
    Raise(IF started_new_process THEN stop_process(st, port) ELSE st, exc)

\* open_session, "Update process info"
update_process_info(st, port, ida_session_id, binary_path) ==
    LET i == ProcIndex(st, port) IN
    IF i = 0 THEN st
    ELSE [st EXCEPT !.processes[i].current_ida_session = ida_session_id,
                    !.processes[i].binary_path = binary_path]

\* open_session, "Store session"
store_session(st, session) ==
    LET sid == session.session_id
        s1  == [st EXCEPT !.sessions = DictSet(@, sid, session),
                          !.last_accessed = ListRemove(@, sid) \o <<sid>>,
                          !.binary_to_session = DictSet(@, session.binary_path, sid),
                          !.port_to_session = DictSet(@, session.process_port, sid)]
    IN  set_current(update_lru(s1, sid), sid)

\* open_session from "Call idalib_open on the process" to the end
open_on_port(st, binary_path, port, started_new_process, reply) ==
    LET f == forward_request(st, port, OpenRequest(binary_path)) IN
    IF Raised(f) \/ reply.kind = "http_fail"
    THEN open_failed(f, port, started_new_process, "RuntimeError")
    ELSE IF reply.kind = "rpc_error"
    THEN open_failed(f, port, started_new_process, "RuntimeError")
    ELSE IF reply.kind = "bad_json"
    THEN Raise(f, "JSONDecodeError")
    ELSE IF reply.kind = "not_success"
    THEN open_failed(f, port, started_new_process, "RuntimeError")
    ELSE
        LET ida_session_id == IF reply.kind = "ok" THEN reply.session_id ELSE "unknown"
            session == ProxySession_create(binary_path, port, ida_session_id)
            s1 == update_process_info(f, port, ida_session_id, binary_path)
            s2 == store_session(s1, session)
        IN  Return(s2, s2.sessions[session.session_id])

\* the locked part of open_session without "Check if already open"
open_session_locked_unchecked(st, binary_path, pick, ready, reply) ==
    LET sel == select_port(st, pick, ready) IN
    IF Raised(sel) THEN sel
    ELSE open_on_port(sel, binary_path, sel.ret.value.port,
                      sel.ret.value.started_new_process, reply)

\* open_session, the part under "with self._lock": the thread holds the
\* registry lock from the check of _binary_to_session to the return
open_session_locked(st, binary_path, pick, ready, reply) ==
    IF binary_path \in DOMAIN st.binary_to_session
    THEN open_existing(st, binary_path)
    ELSE
        LET sel == select_port(st, pick, ready) IN
        IF Raised(sel) THEN sel
        ELSE open_on_port(sel, binary_path, sel.ret.value.port,
                          sel.ret.value.started_new_process, reply)

\* open_session that looks for a port before it looks for an open session
open_session_port_first(st, raw, pick, ready, reply) ==
    LET binary_path == Resolve(raw) IN
    IF ~PathExists(binary_path) THEN Raise(st, "FileNotFoundError")
    ELSE
        LET sel == select_port(st, pick, ready) IN
        IF Raised(sel) THEN sel
        ELSE IF binary_path \in DOMAIN sel.binary_to_session
        THEN open_existing(sel, binary_path)
        ELSE open_on_port(sel, binary_path, sel.ret.value.port,
                          sel.ret.value.started_new_process, reply)

\* SessionManager.open_session
open_session(st, raw, pick, ready, reply) ==
    LET binary_path == Resolve(raw) IN
    IF ~PathExists(binary_path) THEN Raise(st, "FileNotFoundError")
    ELSE open_session_locked(st, binary_path, pick, ready, reply)

\* close_session that leaves the entry of the binary in _binary_to_session
close_session_keeps_binary(st, session_id, terminate_process) ==
    IF session_id \notin DOMAIN st.sessions THEN Return(st, FALSE)
    ELSE
        LET session == st.sessions[session_id]
            port    == session.process_port
            popped  == sessions_pop(st, session_id)
            removed == [popped EXCEPT
                           !.port_to_session = DictPop(@, port),
                           !.lru_order = ListRemove(@, session_id)]
            current == promote_current(removed, session_id)
            closed  == forward_best_effort(current, port, CloseRequest(session))
            stopped == IF terminate_process THEN stop_process(closed, port) ELSE closed
        IN  Return(stopped, TRUE)

\* SessionManager.close_session
close_session(st, session_id, terminate_process) ==
    IF session_id \notin DOMAIN st.sessions THEN Return(st, FALSE)
    ELSE
        LET session == st.sessions[session_id]
            port    == session.process_port
            popped  == sessions_pop(st, session_id)
            removed == [popped EXCEPT
                           !.binary_to_session = DictPop(@, session.binary_path),
                           !.port_to_session = DictPop(@, port),
                           !.lru_order = ListRemove(@, session_id)]
            current == promote_current(removed, session_id)
            closed  == forward_best_effort(current, port, CloseRequest(session))
            stopped == IF terminate_process THEN stop_process(closed, port) ELSE closed
        IN  Return(stopped, TRUE)

\* close_session(session_id) with the default turned into True
close_session_default_terminates(st, session_id) ==
    close_session(st, session_id, TRUE)

\* close_session(session_id): the call with the default argument,
\* terminate_process = False
close_session_default(st, session_id) ==
    close_session(st, session_id, FALSE)

\* the loop of close_all over the session ids it listed; a session that is
\* gone by the time its turn comes makes close_session return False
RECURSIVE close_sessions(_, _)
close_sessions(st, session_ids) ==
    IF session_ids = <<>> THEN st
    ELSE close_sessions(close_session_default(st, Head(session_ids)), Tail(session_ids))

\* the elements of a set, listed in some order
RECURSIVE SetToSeq(_)
SetToSeq(S) ==
    IF S = {} THEN <<>>
    ELSE LET x == CHOOSE y \in S : TRUE IN <<x>> \o SetToSeq(S \ {x})

\* list(self._sessions.keys()): close_all leaves the same registry for
\* every order of the keys
session_keys(st) == SetToSeq(DOMAIN st.sessions)

\* SessionManager.close_all
close_all(st) == Return(close_sessions(st, session_keys(st)), None)

\* a switch_session that leaves the LRU order alone
switch_session_keeps_order(st, session_id) ==
    IF session_id \notin DOMAIN st.sessions THEN Raise(st, "ValueError")
    ELSE
        LET s == set_current(touch(st, session_id), session_id)
        IN  Return(s, s.sessions[session_id])

\* SessionManager.switch_session
switch_session(st, session_id) ==
    IF session_id \notin DOMAIN st.sessions THEN Raise(st, "ValueError")
    ELSE
        LET s == set_current(update_lru(touch(st, session_id), session_id), session_id)
        IN  Return(s, s.sessions[session_id])

\* SessionManager.get_session (None if absent)
get_session(st, session_id) ==
    IF session_id \in DOMAIN st.sessions THEN st.sessions[session_id] ELSE None

\* SessionManager.get_current_session (None if absent)
get_current_session(st) ==
    IF st.current_session_id = None THEN None
    ELSE get_session(st, st.current_session_id)

(* ---------------------------------------------------------------------- *)
(* router.py                                                               *)
(* ---------------------------------------------------------------------- *)

\* RequestRouter._tool_error_response
tool_error_response(request_id, error) ==
    [ id |-> request_id, isError |-> TRUE, error |-> error, from |-> "proxy" ]

\* the arguments of an analysis call as the client sends them: some tool
\* arguments plus, optionally, "session"
ClientArguments(session_arg) ==
    IF session_arg = None THEN [addr |-> "0x401000"]
    ELSE [addr |-> "0x401000", session |-> session_arg]

\* arguments.get("session") for pop: the argument stays in the dict
ArgumentsKeepSession(arguments) == arguments

\* arguments.pop("session", None): the arguments left for the worker
ArgumentsPopSession(arguments) ==
    [k \in (DOMAIN arguments) \ {"session"} |-> arguments[k]]

\* "Get target session" that falls back to the current session when the
\* named one is unknown
target_session_id_or_current(st, session_id) ==
    IF session_id # None /\ session_id # "" /\ session_id \in DOMAIN st.sessions
    THEN session_id
    ELSE IF st.current_session_id # None /\ st.current_session_id \in DOMAIN st.sessions
         THEN st.current_session_id
         ELSE None

\* "Get target session" of _handle_analysis_tool: the id of the session
\* the call is for, None if there is none
target_session_id(st, session_id) ==
    IF session_id # None /\ session_id # ""
    THEN IF session_id \in DOMAIN st.sessions THEN session_id ELSE None
    ELSE IF st.current_session_id # None /\ st.current_session_id \in DOMAIN st.sessions
         THEN st.current_session_id
         ELSE None

\* the worker's answer to a request: it echoes the request's id
WorkerResponse(request, body) == [ id |-> request.id, from |-> "worker", body |-> body ]

\* _handle_analysis_tool without the health check before forwarding
handle_analysis_tool_unchecked(st, request_id, tool_name, arguments, reply) ==
    LET session_id == IF "session" \in DOMAIN arguments THEN arguments["session"] ELSE None
        forwarded  == ArgumentsPopSession(arguments)
        target     == target_session_id(st, session_id)
    IN  IF target = None
        THEN Return(st, tool_error_response(request_id,
                 IF session_id # None /\ session_id # ""
                 THEN "Session not found" ELSE "No active session"))
        ELSE
            LET session == st.sessions[target]
                touched == touch(st, session.session_id)
                child_request == [ id |-> ChildRequestId, method |-> "tools/call",
                                   name |-> tool_name, arguments |-> forwarded ]
                f == forward_request(touched, session.process_port, child_request)
            IN  IF Raised(f) \/ reply = "http_fail"
                THEN Return(f, tool_error_response(request_id, "Request to port failed"))
                ELSE Return(f, [WorkerResponse(child_request, reply) EXCEPT !.id = request_id])

\* RequestRouter._handle_analysis_tool
handle_analysis_tool(st, request_id, tool_name, arguments, reply) ==
    LET session_id == IF "session" \in DOMAIN arguments THEN arguments["session"] ELSE None
        forwarded  == ArgumentsPopSession(arguments)
        target     == target_session_id(st, session_id)
    IN  IF target = None
        THEN Return(st, tool_error_response(request_id,
                 IF session_id # None /\ session_id # ""
                 THEN "Session not found" ELSE "No active session"))
        ELSE
            LET session == st.sessions[target]
                touched == touch(st, session.session_id)
            IN
            IF ~check_process_health(touched, session.process_port)
            THEN Return(close_session_default(touched, session.session_id),
                        tool_error_response(request_id, "no longer available (process crashed)"))
            ELSE
                LET child_request == [ id |-> ChildRequestId, method |-> "tools/call",
                                       name |-> tool_name, arguments |-> forwarded ]
                    f == forward_request(touched, session.process_port, child_request)
                IN  IF Raised(f) \/ reply = "http_fail"
                    THEN Return(f, tool_error_response(request_id, "Request to port failed"))
                    ELSE Return(f, [WorkerResponse(child_request, reply) EXCEPT !.id = request_id])

\* RequestRouter._error_response
error_response(request_id, code, message) ==
    [ id |-> request_id, error |-> [code |-> code, message |-> message], from |-> "proxy" ]

\* RequestRouter._forward_to_current: the client's request goes to the
\* worker of the current session as it is
forward_to_current(st, request, reply) ==
    IF target_session_id(st, None) = None
    THEN Return(st, error_response(request.id, NoActiveSessionCode, "No active session"))
    ELSE
        LET session == get_current_session(st)
            f == forward_request(st, session.process_port, request)
        IN  IF Raised(f) \/ reply = "http_fail"
            THEN Return(f, error_response(request.id, ForwardFailedCode,
                                          "Request to port failed"))
            ELSE Return(f, WorkerResponse(request, reply))

\* RequestRouter.SESSION_TOOLS
SESSION_TOOLS ==
    {"idalib_open", "idalib_close", "idalib_switch", "idalib_list", "idalib_current"}

\* RequestRouter.SESSION_TOOL_SCHEMAS: name and input schema of each schema
SESSION_TOOL_SCHEMAS ==
    [name \in SESSION_TOOLS |->
        [name |-> name,
         inputSchema |->
            IF name = "idalib_open"
            THEN [type |-> "object",
                  properties |-> [input_path |-> StringParam,
                                  run_auto_analysis |-> BooleanParam],
                  required |-> {"input_path"}]
            ELSE IF name \in {"idalib_close", "idalib_switch"}
            THEN [type |-> "object",
                  properties |-> [session_id |-> StringParam],
                  required |-> {"session_id"}]
            ELSE [type |-> "object", properties |-> EmptyDict]]]

\* the orders in which `for name in self.SESSION_TOOLS` may visit the set
\* (the iteration order of a set of strings is not fixed)
SessionToolOrders ==
    { <<"idalib_open", "idalib_close", "idalib_switch", "idalib_list", "idalib_current">>,
      <<"idalib_current", "idalib_list", "idalib_switch", "idalib_close", "idalib_open">> }

\* dict.get(k, default)
DictGet(d, k, default) == IF k \in DOMAIN d THEN d[k] ELSE default

\* tool.get("name", "")
ToolName(tool) == DictGet(tool, "name", "")

\* the body of the loop of _handle_tools_list for a tool that is kept:
\* properties["session"] = {...}; schema["properties"] = properties;
\* tool["inputSchema"] = schema
add_session_parameter(tool) ==
    LET schema     == DictGet(tool, "inputSchema", EmptyDict)
        properties == DictGet(schema, "properties", EmptyDict)
    IN  DictSet(tool, "inputSchema",
                DictSet(schema, "properties",
                        DictSet(properties, "session", StringParam)))

\* a test that takes no tool for one the proxy handles itself
never_session_tool(tool) == FALSE

\* tool_name in self.SESSION_TOOLS
is_session_tool(tool) == ToolName(tool) \in SESSION_TOOLS

\* the loop of _handle_tools_list over child_tools
RECURSIVE modified_tools(_)
modified_tools(child_tools) ==
    IF child_tools = <<>> THEN <<>>
    ELSE IF is_session_tool(Head(child_tools))
         THEN modified_tools(Tail(child_tools))
         ELSE <<add_session_parameter(Head(child_tools))>>
                  \o modified_tools(Tail(child_tools))

\* the port _handle_tools_list asks: the current session's worker, else
\* the default worker, else none
tools_list_port(st) ==
    IF target_session_id(st, None) # None
    THEN get_current_session(st).process_port
    ELSE st.default_port

\* RequestRouter._handle_tools_list.  `cached` is self._cached_tools, the
\* list refresh_tools took from the default worker (empty if it took none)
handle_tools_list(st, request_id, reply, cached, order) ==
    LET port == tools_list_port(st)
        f == IF port = NoPort THEN Raise(st, "no worker")
             ELSE forward_request(st, port,
                      [ id |-> ChildRequestId, method |-> "tools/list", name |-> None,
                        arguments |-> EmptyDict ])
        child_tools ==
            IF port = NoPort THEN cached
            ELSE IF Raised(f) \/ reply.kind = "http_fail" THEN cached
            ELSE IF reply.kind = "result" THEN reply.tools
            ELSE <<>>
        session_tools == [i \in 1 .. Len(order) |-> SESSION_TOOL_SCHEMAS[order[i]]]
    IN  Return(IF port = NoPort THEN st ELSE f,
               [ id |-> request_id, from |-> "proxy",
                 tools |-> session_tools \o modified_tools(child_tools) ])

\* ProcessManager.ensure_default_process; `existing` tells whether a server
\* already answers on BASE_PORT
ensure_default_process(st, existing, pick, ready) ==
    IF /\ st.default_port # NoPort
       /\ ProcIndex(st, st.default_port) # 0
       /\ is_alive(st.processes[ProcIndex(st, st.default_port)])
    THEN Return(st, st.default_port)
    ELSE IF existing
    THEN
        LET info == [ port |-> BASE_PORT, external |-> TRUE, alive |-> TRUE,
                      binary_path |-> NoPath, current_ida_session |-> None ]
            i    == ProcIndex(st, BASE_PORT)
        IN  Return([st EXCEPT !.processes = IF i = 0 THEN Append(@, info)
                                            ELSE [@ EXCEPT ![i] = info],
                              !.default_port = BASE_PORT,
                              !.next_port = BASE_PORT + 1], BASE_PORT)
    ELSE
        LET s == start_process(st, pick, ready) IN
        IF Raised(s) THEN s
        ELSE Return([s EXCEPT !.default_port = s.ret.value], s.ret.value)

\* RequestRouter.refresh_tools: asks the default worker for its tool list
refresh_tools(st) ==
    IF st.default_port = NoPort THEN st
    ELSE forward_best_effort(st, st.default_port,
             [ id |-> ChildRequestId, method |-> "tools/list", name |-> None,
               arguments |-> EmptyDict ])

\* ProxyMcpServer.serve up to serve_forever: start the default worker and
\* cache its tool list; a failure is logged and the server starts anyway
serve_startup(st, existing, pick, ready) ==
    LET s == ensure_default_process(st, existing, pick, ready) IN
    IF Raised(s) THEN Return(s, None) ELSE Return(refresh_tools(s), None)

(* ---------------------------------------------------------------------- *)
(* The state machine                                                       *)
(* ---------------------------------------------------------------------- *)

\* the session ids a client can name: those the registry knows (in the
\* session map or in an index) and one it has never heard of
SessionIdInputs ==
    (DOMAIN sessions)
        \cup { binary_to_session[b] : b \in DOMAIN binary_to_session }
        \cup { port_to_session[q] : q \in DOMAIN port_to_session }
        \cup {"nonexistent"}

AnalysisTools == {"decompile"}

\* script value under which any call may be made at any time
Free == <<"free">>

\* the objects after ProcessManager(), SessionManager(max_processes, pm) and
\* RequestRouter(sm) have been constructed
Fresh ==
    /\ sessions = EmptyDict
    /\ binary_to_session = EmptyDict
    /\ port_to_session = EmptyDict
    /\ current_session_id = None
    /\ lru_order = <<>>
    /\ last_accessed = <<>>
    /\ processes = <<>>
    /\ available_ports = {}
    /\ next_port = BASE_PORT
    /\ default_port = NoPort
    /\ phase = "constructed"
    /\ history = <<>>
    /\ shutdown_called = FALSE
    /\ server_shut = FALSE

\* ... with max_processes 1 or the default, and no request in progress
Constructed ==
    /\ max_processes \in 1 .. DefaultMaxProcesses
    /\ Fresh
    /\ threads = <<>>

Init ==
    /\ Constructed
    /\ script = Free

\* the call `name` may be made now
MayCall(name) ==
    script = Free \/ (Len(script) > 0 /\ Head(script) = name)

\* the program state a call leaves behind.  In a scenario the call is logged
\* with its argument and with what the environment did during the call (env:
\* did a spawned worker become ready, what did the worker reply), and a call
\* that raises ends the scenario.
Managers(st) ==
    /\ sessions' = st.sessions
    /\ binary_to_session' = st.binary_to_session
    /\ port_to_session' = st.port_to_session
    /\ current_session_id' = st.current_session_id
    /\ lru_order' = st.lru_order
    /\ last_accessed' = st.last_accessed
    /\ processes' = st.processes
    /\ available_ports' = st.available_ports
    /\ next_port' = st.next_port
    /\ default_port' = st.default_port
    /\ UNCHANGED max_processes

\* ... by a call that is not part of the server's shutdown
Effects(st) ==
    /\ Managers(st)
    /\ UNCHANGED <<shutdown_called, server_shut>>

\* the entry of a call in the log
LogEntry(name, arg, env, st) ==
    [ op |-> name, arg |-> arg, env |-> env,
      ret |-> st.ret, sent |-> st.sent,
      started |-> st.started, stopped |-> st.stopped,
      terminated |-> st.terminated, evicted |-> st.evicted ]

\* a call made by a client that is served alone
Commit(name, arg, env, st) ==
    /\ Effects(st)
    /\ script' = IF script = Free THEN script
                 ELSE IF Raised(st) THEN <<>> ELSE Tail(script)
    /\ history' = IF script = Free THEN history
                  ELSE Append(history, LogEntry(name, arg, env, st))
    /\ UNCHANGED threads

\* the objects are in use: behind the server once serve ran its start-up,
\* else directly as a library (as the unit tests use them)
Used == IF phase = "constructed" THEN "library" ELSE phase

\* ProxyMcpServer.serve: the start-up, before the first request is served
Serve ==
    /\ phase = "constructed"
    /\ MayCall("serve")
    /\ \E existing \in BOOLEAN, ready \in BOOLEAN :
         \E pick \in AllocChoices(State) :
            Commit("serve", None, [existing |-> existing, ready |-> ready],
                   serve_startup(State, existing, pick, ready))
    /\ phase' = "serving"

\* open_session consults the pool and a worker only for an existing binary
\* that is not open yet; otherwise the outcomes of a spawn and the worker's
\* reply are not inputs of the call
ConsultsWorker(raw) ==
    PathExists(Resolve(raw)) /\ Resolve(raw) \notin DOMAIN binary_to_session

\* a client calls open_session(binary_path)
OpenSession ==
    /\ MayCall("open_session")
    /\ \E raw \in RawPaths :
         \E ready \in IF ConsultsWorker(raw) THEN BOOLEAN ELSE {TRUE},
            reply \in IF ConsultsWorker(raw) THEN OpenReplies
                      ELSE {[kind |-> "http_fail", session_id |-> None]},
            pick \in AllocChoices(State) :
            Commit("open_session", raw, [ready |-> ready, reply |-> reply],
                   open_session(State, raw, pick, ready, reply))
    /\ phase' = Used

\* a client calls close_session(session_id, terminate_process)
CloseSession ==
    /\ MayCall("close_session")
    /\ \E session_id \in SessionIdInputs, terminate_process \in BOOLEAN :
         Commit("close_session", session_id, [terminate_process |-> terminate_process],
                close_session(State, session_id, terminate_process))
    /\ phase' = Used

\* a client calls switch_session(session_id)
SwitchSession ==
    /\ MayCall("switch_session")
    /\ \E session_id \in SessionIdInputs :
         Commit("switch_session", session_id, None, switch_session(State, session_id))
    /\ phase' = Used

\* a client sends tools/call for an analysis tool, with or without "session"
HandleAnalysisTool ==
    /\ MayCall("analysis_tool")
    /\ \E request_id \in RequestIds, tool_name \in AnalysisTools,
          session_arg \in SessionIdInputs \cup {None}, reply \in AnalysisReplies :
         Commit("analysis_tool", session_arg, [reply |-> reply, request_id |-> request_id],
                handle_analysis_tool(State, request_id, tool_name,
                                     ClientArguments(session_arg), reply))
    /\ phase' = Used

\* a spawned worker process exits on its own (crash, kill from outside)
WorkerExit ==
    /\ MayCall("worker_exit")
    /\ \E i \in 1 .. Len(processes) :
         /\ ~processes[i].external
         /\ processes[i].alive
         /\ Commit("worker_exit", processes[i].port, None,
                   Return([State EXCEPT !.processes[i].alive = FALSE], None))
    /\ phase' = Used

Next ==
    \/ Serve
    \/ SwitchSession
    \/ OpenSession
    \/ CloseSession
    \/ HandleAnalysisTool
    \/ WorkerExit

Spec == Init /\ [][Next]_vars

(* ---------------------------------------------------------------------- *)
(* Scenarios                                                               *)
(* ---------------------------------------------------------------------- *)

\* a scenario starts on the freshly constructed objects, or behind the
\* server after its start-up
WithStartup(calls) == {calls, <<"serve">> \o calls}

\* the log of the scenario proper, without the start-up
Calls == IF Len(history) > 0 /\ history[1].op = "serve" THEN Tail(history) ELSE history

\* the scenario has run to its end and no call raised
Completed == script = <<>> /\ \A i \in 1 .. Len(history) : history[i].ret.kind = "return"

\* open, open, ... : one open more than max_processes
OpensScript == [i \in 1 .. max_processes + 1 |-> "open_session"]

InitOpens ==
    /\ Constructed
    /\ script \in WithStartup(OpensScript)

NextOpens ==
    \/ Serve
    \/ OpenSession

SpecOpens == InitOpens /\ [][NextOpens]_vars

\* open a, open b, switch a, open c with max_processes = 2
InitSwitch ==
    /\ Constructed
    /\ max_processes = 2
    /\ script \in WithStartup(<<"open_session", "open_session", "switch_session", "open_session">>)

NextSwitch ==
    \/ Serve
    \/ SwitchSession
    \/ OpenSession

SpecSwitch == InitSwitch /\ [][NextSwitch]_vars

\* open a, open b, analysis call, open c with max_processes = 2
InitTouch ==
    /\ Constructed
    /\ max_processes = 2
    /\ script \in WithStartup(<<"open_session", "open_session", "analysis_tool", "open_session">>)

NextTouch ==
    \/ Serve
    \/ OpenSession
    \/ HandleAnalysisTool

SpecTouch == InitTouch /\ [][NextTouch]_vars

\* open, the worker dies, analysis call, open
InitCrash ==
    /\ Constructed
    /\ script \in WithStartup(<<"open_session", "worker_exit", "analysis_tool", "open_session">>)

NextCrash ==
    \/ Serve
    \/ OpenSession
    \/ WorkerExit
    \/ HandleAnalysisTool

SpecCrash == InitCrash /\ [][NextCrash]_vars

\* open p, close the session, open again
InitReopen ==
    /\ Constructed
    /\ script \in WithStartup(<<"open_session", "close_session", "open_session">>)

NextReopen ==
    \/ Serve
    \/ OpenSession
    \/ CloseSession

SpecReopen == InitReopen /\ [][NextReopen]_vars

\* with room for three workers: open a, open b, open c, switch, close
InitClose ==
    /\ max_processes = TestMaxProcesses
    /\ Fresh
    /\ threads = <<>>
    /\ script \in WithStartup(<<"open_session", "open_session", "open_session",
                                "switch_session", "close_session">>)

NextClose ==
    \/ Serve
    \/ OpenSession
    \/ SwitchSession
    \/ CloseSession

SpecClose == InitClose /\ [][NextClose]_vars

\* Concurrent open_session calls, one per request thread of the
\* ThreadingHTTPServer.  A thread first resolves its path and tests that the
\* file exists, without the lock; then it takes the registry lock and runs
\* the rest of open_session to its return.  The steps of different threads
\* interleave in every order.  The threads all name binary 1, each by
\* either spelling.
RacePaths == {<<PathOf(1), "abs">>, <<PathOf(1), "rel">>}

InitRace ==
    /\ max_processes \in 1 .. DefaultMaxProcesses
    /\ Fresh
    /\ script \in WithStartup(<<>>)
    /\ threads \in [1 .. NumThreads ->
                       [pc : {"start"}, raw : RacePaths, binary_path : {NoPath}]]

\* thread t: "path = Path(binary_path).resolve()", "if not path.exists()"
OpenResolve(t) ==
    /\ script = <<>>
    /\ threads[t].pc = "start"
    /\ LET binary_path == Resolve(threads[t].raw) IN
       IF PathExists(binary_path)
       THEN /\ threads' = [threads EXCEPT ![t].pc = "resolved",
                                          ![t].binary_path = binary_path]
            /\ UNCHANGED history
       ELSE /\ threads' = [threads EXCEPT ![t].pc = "done",
                                          ![t].binary_path = binary_path]
            /\ history' = Append(history,
                               LogEntry("open_session", threads[t].raw, [thread |-> t],
                                        Raise(State, "FileNotFoundError")))
    /\ Effects(State)
    /\ UNCHANGED script
    /\ phase' = Used

\* thread t: "with self._lock:" to the return of open_session
OpenLocked(t) ==
    /\ script = <<>>
    /\ threads[t].pc = "resolved"
    /\ \E ready \in IF ConsultsWorker(threads[t].raw) THEN BOOLEAN ELSE {TRUE},
          reply \in IF ConsultsWorker(threads[t].raw) THEN OpenReplies
                    ELSE {[kind |-> "ok", session_id |-> "A"]},
          pick \in AllocChoices(State) :
         LET st == open_session_locked(State, threads[t].binary_path, pick, ready, reply)
         IN  /\ Effects(st)
             /\ history' = Append(history,
                                LogEntry("open_session", threads[t].raw,
                                         [thread |-> t, ready |-> ready, reply |-> reply], st))
    /\ threads' = [threads EXCEPT ![t].pc = "done"]
    /\ UNCHANGED script
    /\ phase' = Used

NextRace ==
    \/ Serve
    \/ \E t \in 1 .. NumThreads : OpenResolve(t)
    \/ \E t \in 1 .. NumThreads : OpenLocked(t)

SpecRace == InitRace /\ [][NextRace]_vars

(* The two locks.  SessionManager._lock (the registry lock) and
   ProcessManager._lock (the pool lock) are RLocks.  A request is, for its
   locks, the list of the acquisitions and releases its handler makes in
   program order; a thread that asks for a lock another thread holds waits. *)
AcquireOf(lock) == [op |-> "acquire", lock |-> lock]
ReleaseOf(lock) == [op |-> "release", lock |-> lock]

\* a method of ProcessManager that took the registry lock inside its
\* "with self._lock:"
pool_call_back ==
    <<AcquireOf("pool"), AcquireOf("registry"), ReleaseOf("registry"), ReleaseOf("pool")>>

\* a method of ProcessManager: "with self._lock:" around statements that
\* touch only the fields of the pool (allocate_port, release_port, the
\* registration in start_process, the pop in stop_process, get_process,
\* check_process_health, process_count, active_ports)
pool_call ==
    <<AcquireOf("pool"), ReleaseOf("pool")>>

\* n methods of ProcessManager called one after the other
RECURSIVE pool_calls(_)
pool_calls(n) == IF n = 0 THEN <<>> ELSE pool_call \o pool_calls(n - 1)

\* a method of SessionManager: "with self._lock:" around a body
registry_locked(body) ==
    <<AcquireOf("registry")>> \o body \o <<ReleaseOf("registry")>>

\* SessionManager.open_session by its paths: the binary is open; an idle
\* worker (active_ports, forward_request's health check, and get_process
\* when the open succeeded); a failed start (active_ports, process_count,
\* allocate_port, release_port); a start (active_ports, process_count,
\* allocate_port, registration, health check) followed by get_process or
\* by stop_process and release_port; an eviction (active_ports,
\* process_count, the health checks of idalib_close and idalib_open, and
\* get_process when the open succeeded)
open_session_locks ==
    { registry_locked(pool_calls(n)) : n \in {0, 2, 3, 4, 5, 6, 7} }

\* SessionManager.close_session: no such session; the health check of the
\* idalib_close; with terminate_process also stop_process and release_port
close_session_locks ==
    { registry_locked(pool_calls(n)) : n \in {0, 1, 3} }

\* SessionManager.switch_session
switch_session_locks == { registry_locked(<<>>) }

\* RequestRouter._handle_idalib_list: list_sessions, then
\* get_current_session
handle_idalib_list_locks == { registry_locked(<<>>) \o registry_locked(<<>>) }

\* RequestRouter._handle_analysis_tool: get_session or get_current_session;
\* then, holding no lock, check_process_health, and either forward_request
\* or, for a crashed worker, close_session
handle_analysis_tool_locks ==
    { registry_locked(<<>>) }
        \cup { registry_locked(<<>>) \o pool_calls(2) }
        \cup { registry_locked(<<>>) \o pool_call \o c : c \in close_session_locks }

\* the requests the router serves concurrently
RequestLocks ==
    open_session_locks \cup close_session_locks \cup switch_session_locks
        \cup handle_idalib_list_locks \cup handle_analysis_tool_locks

\* the thread has run its handler to the end
Finished(t) == threads[t].pc > Len(threads[t].path)

\* the thread that holds the lock, 0 if it is free
HolderOf(lock) ==
    IF \E t \in DOMAIN threads : threads[t].held[lock] > 0
    THEN CHOOSE t \in DOMAIN threads : threads[t].held[lock] > 0
    ELSE 0

InitLocks ==
    /\ max_processes = DefaultMaxProcesses
    /\ Fresh
    /\ script = <<>>
    /\ threads \in [1 .. NumThreads ->
                       [path : RequestLocks, pc : {1},
                        held : {[lock \in {"registry", "pool"} |-> 0]}]]

\* thread t enters "with self._lock:"; an RLock lets its holder in again
AcquireLock(t) ==
    /\ ~Finished(t)
    /\ LET step == threads[t].path[threads[t].pc] IN
       /\ step.op = "acquire"
       /\ HolderOf(step.lock) \in {0, t}
       /\ threads' = [threads EXCEPT ![t].pc = @ + 1,
                                      ![t].held[step.lock] = @ + 1]
    /\ Effects(State)
    /\ UNCHANGED <<phase, script, history>>

\* thread t leaves "with self._lock:"
ReleaseLock(t) ==
    /\ ~Finished(t)
    /\ LET step == threads[t].path[threads[t].pc] IN
       /\ step.op = "release"
       /\ threads' = [threads EXCEPT ![t].pc = @ + 1,
                                      ![t].held[step.lock] = @ - 1]
    /\ Effects(State)
    /\ UNCHANGED <<phase, script, history>>

NextLocks ==
    \/ \E t \in 1 .. NumThreads : AcquireLock(t)
    \/ \E t \in 1 .. NumThreads : ReleaseLock(t)

SpecLocks == InitLocks /\ [][NextLocks]_vars

(* An analysis tools/call served by one thread of the ThreadingHTTPServer
   while other threads serve open, close and switch requests.  The handler
   takes the registry lock only inside get_session / get_current_session;
   from then on it works on the ProxySession object it was given.  The
   requests of the other threads hold the registry lock from their first
   to their last statement on the registry and so are single steps. *)

\* the session object `session` is still the one the registry holds
\* under its id
StillHeld(st, session) ==
    /\ session.session_id \in DOMAIN st.sessions
    /\ st.sessions[session.session_id].binary_path = session.binary_path
    /\ st.sessions[session.session_id].process_port = session.process_port
    /\ st.sessions[session.session_id].ida_session_id = session.ida_session_id

\* _handle_analysis_tool from "session.touch()" to its return, for the
\* session object found before: touch, health check and crash clean-up
\* or forward, all by the fields of that object
analysis_on_session(st, session, request_id, tool_name, forwarded, reply) ==
    LET touched == IF StillHeld(st, session) THEN touch(st, session.session_id) ELSE st
    IN
    IF ~check_process_health(touched, session.process_port)
    THEN Return(close_session_default(touched, session.session_id),
                tool_error_response(request_id, "no longer available (process crashed)"))
    ELSE
        LET child_request == [ id |-> ChildRequestId, method |-> "tools/call",
                               name |-> tool_name, arguments |-> forwarded ]
            f == forward_request(touched, session.process_port, child_request)
        IN  IF Raised(f) \/ reply = "http_fail"
            THEN Return(f, tool_error_response(request_id, "Request to port failed"))
            ELSE Return(f, [WorkerResponse(child_request, reply) EXCEPT !.id = request_id])

\* the handler thread between two requests
IdleThread == [pc |-> "idle"]

InitDeliver ==
    /\ max_processes \in 1 .. DefaultMaxProcesses
    /\ Fresh
    /\ script = Free
    /\ threads = IdleThread

\* the thread: "session = self.session_manager.get_session(session_id)" or
\* "... get_current_session()", for a request that names a live session
AnalysisResolve ==
    /\ threads.pc = "idle"
    /\ \E session_arg \in SessionIdInputs \cup {None} :
         LET target == target_session_id(State, session_arg) IN
         /\ target # None
         /\ threads' = [pc |-> "resolved", session |-> sessions[target]]
    /\ Effects(State)
    /\ UNCHANGED <<script, history>>
    /\ phase' = Used

\* the thread: from "session.touch()" to the return
AnalysisDeliver ==
    /\ threads.pc = "resolved"
    /\ \E request_id \in RequestIds, tool_name \in AnalysisTools,
          reply \in AnalysisReplies :
         Effects(analysis_on_session(State, threads.session, request_id, tool_name,
                                     EmptyDict, reply))
    /\ threads' = IdleThread
    /\ UNCHANGED <<script, history>>
    /\ phase' = Used

NextDeliver ==
    \/ OpenSession
    \/ CloseSession
    \/ SwitchSession
    \/ AnalysisResolve
    \/ AnalysisDeliver

SpecDeliver == InitDeliver /\ [][NextDeliver]_vars

(* idalib_list served by one thread while other threads serve open, close
   and switch requests.  _handle_idalib_list calls list_sessions() and then
   get_current_session(); each takes and releases the registry lock. *)

\* ProxySession.to_dict (without the timestamps)
to_dict(session) ==
    [ session_id  |-> session.session_id,
      binary_path |-> session.binary_path,
      binary_name |-> session.binary_name,
      is_current  |-> session.is_current ]

\* SessionManager.list_sessions: the dictionaries of the sessions, here by
\* session id (the order of the list is left out)
list_sessions(st) ==
    [id \in DOMAIN st.sessions |-> to_dict(st.sessions[id])]

\* _handle_idalib_list, "result = {...}": built from the list taken before
\* and from get_current_session() called now
idalib_list_result(listed, st) ==
    [ sessions |-> listed,
      count |-> Cardinality(DOMAIN listed),
      current_session_id |->
          IF target_session_id(st, None) = None THEN None
          ELSE st.sessions[target_session_id(st, None)].session_id ]

\* RequestRouter._handle_idalib_list run without a step of another thread
handle_idalib_list(st) == idalib_list_result(list_sessions(st), st)

\* the thread: "sessions = self.session_manager.list_sessions()"
ListSessions ==
    /\ threads.pc = "idle"
    /\ threads' = [pc |-> "listed", sessions |-> list_sessions(State)]
    /\ Effects(State)
    /\ UNCHANGED <<script, history>>
    /\ phase' = Used

\* the thread: "current = self.session_manager.get_current_session()", the
\* result and the response
ListCurrent ==
    /\ threads.pc = "listed"
    /\ threads' = IdleThread
    /\ Effects(State)
    /\ UNCHANGED <<script, history>>
    /\ phase' = Used

NextList ==
    \/ OpenSession
    \/ CloseSession
    \/ SwitchSession
    \/ ListSessions
    \/ ListCurrent

SpecList == InitDeliver /\ [][NextList]_vars

\* _handle_tools_list asks a worker and that worker is healthy: only then
\* is the worker's reply an input of the call
AsksWorker ==
    /\ tools_list_port(State) # NoPort
    /\ check_process_health(State, tools_list_port(State))

\* a client sends tools/list
HandleToolsList ==
    /\ MayCall("tools_list")
    /\ \E request_id \in RequestIds, order \in SessionToolOrders :
         \E reply \in IF AsksWorker THEN ToolsReplies
                      ELSE {[kind |-> "http_fail", tools |-> <<>>]} :
            \E cached \in IF AsksWorker /\ reply.kind # "http_fail"
                           THEN {<<>>} ELSE ToolLists :
               Commit("tools_list", None,
                      [reply |-> reply, cached |-> cached, request_id |-> request_id],
                      handle_tools_list(State, request_id, reply, cached, order))
    /\ phase' = Used

\* tools/list before any open, after an open, and after the worker of the
\* open session has exited
ToolsScripts ==
    WithStartup(<<"tools_list">>)
        \cup WithStartup(<<"open_session", "tools_list">>)
        \cup WithStartup(<<"open_session", "worker_exit", "tools_list">>)

InitTools ==
    /\ Constructed
    /\ script \in ToolsScripts

NextTools ==
    \/ Serve
    \/ OpenSession
    \/ WorkerExit
    \/ HandleToolsList

SpecTools == InitTools /\ [][NextTools]_vars

(* The pool used alone, as the unit tests of ProcessManager use it.  Every
   call is logged, and a call that raises does not end the run. *)

\* the calls made on the pool
PoolOps ==
    { "ensure_default_process", "allocate_port", "release_port", "start_process",
      "stop_process", "stop_all", "worker_exit" }

\* a logged call on the pool
PoolCommit(name, arg, env, st) ==
    /\ Effects(st)
    /\ script' = Tail(script)
    /\ history' = Append(history, LogEntry(name, arg, env, st))
    /\ UNCHANGED <<threads, phase>>

\* the port the i-th logged call handed out, NoPort if it handed out none:
\* the port allocate_port returned, the port of the worker start_process
\* or ensure_default_process registered (spawned or adopted)
HandedOut(e) ==
    IF e.ret.kind = "raise" THEN NoPort
    ELSE IF e.op \in {"allocate_port", "start_process", "ensure_default_process"}
    THEN e.ret.value
    ELSE NoPort

\* the port a logged start allocated for the worker it tried to spawn,
\* NoPort if the call spawned nothing
AllocatedForStart(e) ==
    IF e.op \in {"start_process", "ensure_default_process"} THEN e.env.port ELSE NoPort

\* the ports log entry e gave back to the allocator: the argument of
\* release_port, the port of a start that failed, the ports of the spawned
\* workers a stop found in the pool
GivenBack(e) ==
    IF e.op = "release_port" THEN {e.arg}
    ELSE IF e.ret.kind = "raise" THEN {AllocatedForStart(e)} \ {NoPort}
    ELSE IF e.op \in {"stop_process", "stop_all"}
    THEN {e.env.spawned[i] : i \in 1 .. Len(e.env.spawned)}
    ELSE {}

\* the ports handed out by the first n logged calls and not given back since
RECURSIVE HeldAfter(_)
HeldAfter(n) ==
    IF n = 0 THEN {}
    ELSE LET e == history[n]
             before == HeldAfter(n - 1) \ GivenBack(e)
         IN  IF HandedOut(e) = NoPort THEN before ELSE before \cup {HandedOut(e)}

\* the ports handed out and not given back
Held == HeldAfter(Len(history))

\* the ports handed out by allocate_port called directly that no worker
\* was started on and that were not released
RECURSIVE DirectAfter(_)
DirectAfter(n) ==
    IF n = 0 THEN {}
    ELSE LET e == history[n] IN
         IF e.op = "allocate_port" THEN DirectAfter(n - 1) \cup {e.ret.value}
         ELSE IF e.op = "release_port" THEN DirectAfter(n - 1) \ {e.arg}
         ELSE DirectAfter(n - 1)

\* ProcessManager.ensure_default_process is called once, by serve, before
\* anything else
EnsureDefaultProcess ==
    /\ MayCall("ensure_default_process")
    /\ history = <<>>
    /\ \E existing \in BOOLEAN, ready \in BOOLEAN :
         \E pick \in AllocChoices(State) :
            PoolCommit("ensure_default_process", None,
                       [existing |-> existing, ready |-> ready,
                        port |-> IF existing THEN NoPort
                                 ELSE allocate_port(State, pick).ret.value],
                       ensure_default_process(State, existing, pick, ready))

\* allocate_port()
AllocatePort ==
    /\ MayCall("allocate_port")
    /\ \E pick \in AllocChoices(State) :
         PoolCommit("allocate_port", None, None, allocate_port(State, pick))

\* release_port(port), for a port the caller got from allocate_port
ReleasePort ==
    /\ MayCall("release_port")
    /\ \E port \in DirectAfter(Len(history)) :
         PoolCommit("release_port", port, None, Return(release_port(State, port), None))

\* start_process()
StartProcess ==
    /\ MayCall("start_process")
    /\ \E ready \in BOOLEAN :
         \E pick \in AllocChoices(State) :
            PoolCommit("start_process", None,
                       [ready |-> ready, port |-> allocate_port(State, pick).ret.value],
                       start_process(State, pick, ready))

\* the ports of the spawned workers in the pool, in the order of `ports`
SpawnedAmong(st, ports) ==
    SelectSeq(ports, LAMBDA q : ProcIndex(st, q) # 0 /\ ~st.processes[ProcIndex(st, q)].external)

\* stop_process(port), for the port of a worker in the pool or a port without
StopProcess ==
    /\ MayCall("stop_process")
    /\ \E port \in {active_ports(State)[i] : i \in 1 .. Len(processes)} \cup {next_port} :
         PoolCommit("stop_process", port, [spawned |-> SpawnedAmong(State, <<port>>)],
                    stop_process(State, port))

\* stop_all()
StopAll ==
    /\ MayCall("stop_all")
    /\ PoolCommit("stop_all", None, [spawned |-> SpawnedAmong(State, active_ports(State))],
                  stop_all(State))

\* a spawned worker process exits on its own
PoolWorkerExit ==
    /\ MayCall("worker_exit")
    /\ \E i \in 1 .. Len(processes) :
         /\ ~processes[i].external
         /\ processes[i].alive
         /\ PoolCommit("worker_exit", processes[i].port, None,
                       Return([State EXCEPT !.processes[i].alive = FALSE], None))

InitPool ==
    /\ Constructed
    /\ script \in [1 .. MaxPoolCalls -> PoolOps]

NextPool ==
    \/ EnsureDefaultProcess
    \/ AllocatePort
    \/ ReleasePort
    \/ StartProcess
    \/ StopProcess
    \/ StopAll
    \/ PoolWorkerExit

SpecPool == InitPool /\ [][NextPool]_vars

(* The server from main(): the main thread runs serve(), a signal starts a
   thread that runs shutdown(), and the HTTP server hands every request it
   accepted to a handler thread.  shutdown() runs statement by statement. *)

\* "hasattr(self, '_shutdown_called') and self._shutdown_called" that never
\* finds the flag set
never_shutting_down(called) == FALSE

\* "hasattr(self, '_shutdown_called') and self._shutdown_called"
already_shutting_down(called) == called

\* the threads that call shutdown()
ShutdownThreads == {"main", "signal"}

\* the HTTP server exists and accepts requests
Accepting == phase = "serving" /\ ~server_shut

\* a step of the server that leaves the managers alone
ManagersUnchanged ==
    UNCHANGED <<max_processes, sessions, binary_to_session, port_to_session,
                current_session_id, lru_order, last_accessed, processes,
                available_ports, next_port, default_port>>

\* the log entry of a step of shutdown()
ShutdownStep(name, t) == [op |-> name, thread |-> t]

\* serve() to serve_forever, in the main thread
ServeStartup ==
    /\ threads["main"].pc = "serve"
    /\ Serve

\* SIGINT / SIGTERM: the handler starts a thread that calls shutdown()
Signal ==
    /\ threads["signal"].pc = "idle"
    /\ threads' = [threads EXCEPT !["signal"].pc = "check"]
    /\ ManagersUnchanged
    /\ UNCHANGED <<phase, script, history, shutdown_called, server_shut>>

\* serve_forever returns once the HTTP server was shut down, and the
\* finally clause of serve() calls shutdown()
ServeCleanup ==
    /\ threads["main"].pc = "serve"
    /\ phase = "serving"
    /\ server_shut
    /\ threads' = [threads EXCEPT !["main"].pc = "check"]
    /\ ManagersUnchanged
    /\ UNCHANGED <<phase, script, history, shutdown_called, server_shut>>

\* shutdown(): "if ... self._shutdown_called: return"
ShutdownCheck(t) ==
    /\ threads[t].pc = "check"
    /\ threads' = [threads EXCEPT ![t].pc =
                      IF already_shutting_down(shutdown_called) THEN "returned" ELSE "set"]
    /\ ManagersUnchanged
    /\ UNCHANGED <<phase, script, history, shutdown_called, server_shut>>

\* shutdown(): "self._shutdown_called = True"
ShutdownSet(t) ==
    /\ threads[t].pc = "set"
    /\ shutdown_called' = TRUE
    /\ threads' = [threads EXCEPT ![t].pc = "close_all"]
    /\ ManagersUnchanged
    /\ UNCHANGED <<phase, script, history, server_shut>>

\* shutdown(): "self.session_manager.close_all()"
ShutdownCloseAll(t) ==
    /\ threads[t].pc = "close_all"
    /\ Effects(close_all(State))
    /\ history' = Append(history, ShutdownStep("close_all", t))
    /\ threads' = [threads EXCEPT ![t].pc = "stop_all"]
    /\ UNCHANGED <<phase, script>>

\* shutdown(): "self.process_manager.stop_all()"
ShutdownStopAll(t) ==
    /\ threads[t].pc = "stop_all"
    /\ Effects(stop_all(State))
    /\ history' = Append(history, ShutdownStep("stop_all", t))
    /\ threads' = [threads EXCEPT ![t].pc = "server_shutdown"]
    /\ UNCHANGED <<phase, script>>

\* shutdown(): "if self._server: self._server.shutdown()", and the return
ShutdownServer(t) ==
    /\ threads[t].pc = "server_shutdown"
    /\ IF phase = "serving"
       THEN /\ server_shut' = TRUE
            /\ history' = Append(history, ShutdownStep("server_shutdown", t))
       ELSE UNCHANGED <<server_shut, history>>
    /\ threads' = [threads EXCEPT ![t].pc = "complete"]
    /\ ManagersUnchanged
    /\ UNCHANGED <<phase, script, shutdown_called>>

\* the HTTP server accepts a request and starts a handler thread for it
Accept ==
    /\ Accepting
    /\ threads["handler"].pc = "idle"
    /\ threads["handler"].served < MaxRequests
    /\ threads' = [threads EXCEPT !["handler"].pc = "accepted"]
    /\ ManagersUnchanged
    /\ UNCHANGED <<phase, script, history, shutdown_called, server_shut>>

\* the handler thread serves the request it was started for: tools/call of
\* idalib_open
HandleOpen ==
    /\ threads["handler"].pc = "accepted"
    /\ \E raw \in RawPaths :
         \E ready \in IF ConsultsWorker(raw) THEN BOOLEAN ELSE {TRUE},
            reply \in IF ConsultsWorker(raw) THEN OpenReplies
                      ELSE {[kind |-> "http_fail", session_id |-> None]},
            pick \in AllocChoices(State) :
            Effects(open_session(State, raw, pick, ready, reply))
    /\ threads' = [threads EXCEPT !["handler"].pc = "idle",
                                  !["handler"].served = @ + 1]
    /\ UNCHANGED <<phase, script, history>>

InitShutdown ==
    /\ max_processes \in 1 .. DefaultMaxProcesses
    /\ Fresh
    /\ script = Free
    /\ threads = [main |-> [pc |-> "serve"], signal |-> [pc |-> "idle"],
                  handler |-> [pc |-> "idle", served |-> 0]]

NextShutdown ==
    \/ ServeStartup
    \/ Signal
    \/ ServeCleanup
    \/ \E t \in ShutdownThreads : ShutdownCheck(t)
    \/ \E t \in ShutdownThreads : ShutdownSet(t)
    \/ \E t \in ShutdownThreads : ShutdownCloseAll(t)
    \/ \E t \in ShutdownThreads : ShutdownStopAll(t)
    \/ \E t \in ShutdownThreads : ShutdownServer(t)
    \/ Accept
    \/ HandleOpen

SpecShutdown == InitShutdown /\ [][NextShutdown]_vars

(* ---------------------------------------------------------------------- *)
(* Properties                                                              *)
(* ---------------------------------------------------------------------- *)

\* C1: after any sequence of calls the number of live sessions never
\* exceeds max_processes and the number of workers in the pool never
\* exceeds max_processes.
C1_CountsWithinMax ==
    /\ Cardinality(DOMAIN sessions) <= max_processes
    /\ process_count(State) <= max_processes

\* the binaries of the live sessions
LivePaths == { sessions[x].binary_path : x \in DOMAIN sessions }

\* the scenario's opens were made on pairwise distinct binaries
DistinctBinaries(calls) ==
    \A i, j \in 1 .. Len(calls) :
        (i # j /\ calls[i].op = "open_session" /\ calls[j].op = "open_session")
            => Resolve(calls[i].arg) # Resolve(calls[j].arg)

\* the scenario's opens returned pairwise distinct session ids
DistinctSessionIds(calls) ==
    \A i, j \in 1 .. Len(calls) :
        (i # j /\ calls[i].op = "open_session" /\ calls[j].op = "open_session")
            => calls[i].ret.value.session_id # calls[j].ret.value.session_id

\* C1 witness: the registry and the pool are both full, with two sessions
C1_Witness ==
    /\ max_processes = 2
    /\ Cardinality(DOMAIN sessions) = max_processes
    /\ process_count(State) = max_processes

\* C2: after max_processes + 1 successful opens of pairwise distinct
\* binaries and nothing else, the live sessions are exactly those of the
\* last max_processes opens; only the last open evicted, and it evicted the
\* session of the first open (the front of the LRU order) and no other.
C2_LastOpensSurvive ==
    (Completed /\ DistinctBinaries(Calls))
        => LET n == Len(Calls) IN
           /\ LivePaths = { Resolve(Calls[i].arg) : i \in 2 .. n }
           /\ DOMAIN sessions = { Calls[i].ret.value.session_id : i \in 2 .. n }
           /\ Cardinality(DOMAIN sessions) = max_processes
           /\ \A i \in 1 .. n - 1 : Calls[i].evicted = <<>>
           /\ Len(Calls[n].evicted) = 1
           /\ Calls[n].evicted[1].binary_path = Resolve(Calls[1].arg)

\* C2, provided the workers' replies led to pairwise distinct session ids
C2_LastOpensSurviveDistinctIds ==
    (Completed /\ DistinctBinaries(Calls) /\ DistinctSessionIds(Calls))
        => C2_LastOpensSurvive

C2_Witness ==
    /\ Completed /\ DistinctBinaries(Calls) /\ DistinctSessionIds(Calls)
    /\ max_processes = 2
    /\ Len(Calls[3].evicted) = 1

\* C3 (scenario): with max_processes = 2, after open a, open b, switch a,
\* open c (distinct binaries, all succeeding) the live sessions are those of
\* a and c.
C3_SwitchScenario ==
    (/\ Completed /\ DistinctBinaries(Calls)
     /\ Calls[3].arg = Calls[1].ret.value.session_id)
        => /\ LivePaths = {Resolve(Calls[1].arg), Resolve(Calls[4].arg)}
           /\ DOMAIN sessions = {Calls[1].ret.value.session_id, Calls[4].ret.value.session_id}

\* C3 (scenario), provided the opens returned pairwise distinct session ids
C3_SwitchScenarioDistinctIds ==
    (Completed /\ DistinctSessionIds(Calls)) => C3_SwitchScenario

C3_Witness ==
    /\ Completed /\ DistinctBinaries(Calls) /\ DistinctSessionIds(Calls)
    /\ Calls[3].arg = Calls[1].ret.value.session_id
    /\ Len(Calls[4].evicted) = 1

\* C3 (in general): a successful switch_session(S) makes S the tail of the
\* LRU order and keeps the order of all other ids, so that the eviction,
\* which takes the front, takes S only after every other id now in the order.
C3_SwitchMovesToTail ==
    \A sid \in DOMAIN sessions :
        LET r == switch_session(State, sid) IN
        /\ r.ret.kind = "return"
        /\ r.lru_order = ListRemove(lru_order, sid) \o <<sid>>

\* C4: with max_processes = 2, after open a, open b, a successful analysis
\* call with session = a, open c (distinct binaries, distinct session ids,
\* all succeeding), the session evicted is b and a survives.
C4_AnalysisCallTouchesLru ==
    (/\ Completed /\ DistinctBinaries(Calls) /\ DistinctSessionIds(Calls)
     /\ Calls[3].arg = Calls[1].ret.value.session_id
     /\ Calls[3].ret.value.from = "worker")
        => /\ Len(Calls[4].evicted) = 1
           /\ Calls[4].evicted[1].binary_path = Resolve(Calls[2].arg)
           /\ Resolve(Calls[1].arg) \in LivePaths

\* the binary of canonical path p is open: a live session is on p
IsOpen(p) == \E x \in DOMAIN sessions : sessions[x].binary_path = p

\* the worker of a port is healthy: its handle is in the pool and its
\* process has not exited
Healthy(port) ==
    \E i \in 1 .. Len(processes) :
        processes[i].port = port /\ (processes[i].external \/ processes[i].alive)

\* the session an analysis call with this "session" argument is for
TargetOf(session_arg) ==
    IF session_arg = None THEN current_session_id ELSE session_arg

\* C5: in any state in which a live session is on the canonical path p,
\* open_session(p), however p is spelled, returns that session with its
\* session id, leaves the set (so the number) of sessions unchanged, spawns
\* no worker and sends no request to any worker.
C5_OpenIsIdempotent ==
    \A raw \in RawPaths, ready \in BOOLEAN, reply \in OpenReplies :
        \A pick \in AllocChoices(State) :
            IsOpen(Resolve(raw)) =>
                LET r == open_session(State, raw, pick, ready, reply) IN
                /\ r.ret.kind = "return"
                /\ r.ret.value.session_id \in DOMAIN sessions
                /\ r.ret.value = [sessions[r.ret.value.session_id] EXCEPT !.is_current = TRUE]
                /\ r.ret.value.binary_path = Resolve(raw)
                /\ DOMAIN r.sessions = DOMAIN sessions
                /\ Cardinality(DOMAIN r.sessions) = Cardinality(DOMAIN sessions)
                /\ r.started = <<>>
                /\ r.processes = processes
                /\ r.sent = <<>>

\* C5 witness: two sessions are live and the binary of the one that is
\* neither current nor most recently used is opened again, by a
\* non-canonical spelling, and becomes current
C5_Witness ==
    /\ Cardinality(DOMAIN sessions) = 2
    /\ IsOpen(PathOf(1))
    /\ current_session_id \in DOMAIN sessions
    /\ sessions[current_session_id].binary_path # PathOf(1)
    /\ LET r == open_session(State, <<PathOf(1), "rel">>, next_port, TRUE,
                             [kind |-> "ok", session_id |-> "A"])
       IN  /\ r.ret.kind = "return"
           /\ r.current_session_id # current_session_id
           /\ r.lru_order # lru_order

\* the registry is at capacity and every worker of the pool is bound
AtCapacity ==
    /\ Cardinality(DOMAIN sessions) = max_processes
    /\ \A i \in 1 .. Len(processes) : processes[i].port \in DOMAIN port_to_session

\* C6: at capacity, open_session for the binary of the live session at the
\* front of the LRU order evicts nothing: that session is returned, is the
\* tail of the LRU order and current afterwards, and the set of live
\* sessions is unchanged.
C6_OpenLruHeadEvictsNothing ==
    \A raw \in RawPaths, ready \in BOOLEAN, reply \in OpenReplies :
        \A pick \in AllocChoices(State) :
            (/\ AtCapacity
             /\ Len(lru_order) > 0
             /\ lru_order[1] \in DOMAIN sessions
             /\ sessions[lru_order[1]].binary_path = Resolve(raw))
                =>
                LET r == open_session(State, raw, pick, ready, reply) IN
                /\ r.ret.kind = "return"
                /\ r.evicted = <<>>
                /\ r.ret.value.session_id = lru_order[1]
                /\ r.ret.value.binary_path = Resolve(raw)
                /\ r.lru_order[Len(r.lru_order)] = lru_order[1]
                /\ r.current_session_id = lru_order[1]
                /\ r.ret.value.is_current
                /\ DOMAIN r.sessions = DOMAIN sessions
                /\ { r.sessions[x].binary_path : x \in DOMAIN r.sessions } = LivePaths

\* C6 witness: two sessions on two workers with max_processes = 2, the one
\* at the front of the LRU order is not current, and its binary is opened
C6_Witness ==
    /\ max_processes = 2
    /\ AtCapacity
    /\ Len(processes) = 2
    /\ Len(lru_order) = 2
    /\ lru_order[1] \in DOMAIN sessions
    /\ current_session_id = lru_order[2]
    /\ LET r == open_session(State, <<sessions[lru_order[1]].binary_path, "abs">>,
                             next_port, TRUE, [kind |-> "ok", session_id |-> "A"])
       IN  /\ r.ret.kind = "return"
           /\ r.lru_order = <<lru_order[2], lru_order[1]>>

\* C7: when the router has removed a session because its worker had exited,
\* the next open_session of a different existing binary, with a worker that
\* comes up and answers the open, succeeds and is bound to a healthy worker.
C7_OpenAfterCrashSucceeds ==
    (/\ Len(Calls) = 4
     /\ Calls[3].ret.value.from = "proxy"
     /\ Calls[3].ret.value.error = "no longer available (process crashed)"
     /\ PathExists(Resolve(Calls[4].arg))
     /\ Resolve(Calls[4].arg) # Resolve(Calls[1].arg)
     /\ Calls[4].env.ready
     /\ Calls[4].env.reply.kind = "ok")
        => /\ Calls[4].ret.kind = "return"
           /\ Healthy(Calls[4].ret.value.process_port)

\* C8: an analysis call for a live session whose worker is not healthy
\* sends nothing to any worker, removes the session from the session map,
\* its binary from the binary index, its port from the port index and its
\* id from the LRU order, and returns to the client an isError tool response
\* saying the session is no longer available.
C8_UnhealthyWorkerClosesSession ==
    \A session_arg \in SessionIdInputs \cup {None}, reply \in AnalysisReplies,
       request_id \in RequestIds, tool_name \in AnalysisTools :
        LET X == TargetOf(session_arg) IN
        (X \in DOMAIN sessions /\ ~Healthy(sessions[X].process_port))
            =>
            LET r == handle_analysis_tool(State, request_id, tool_name,
                                          ClientArguments(session_arg), reply)
            IN  /\ r.sent = <<>>
                /\ X \notin DOMAIN r.sessions
                /\ sessions[X].binary_path \notin DOMAIN r.binary_to_session
                /\ sessions[X].process_port \notin DOMAIN r.port_to_session
                /\ ~InList(r.lru_order, X)
                /\ r.ret.kind = "return"
                /\ r.ret.value.isError
                /\ r.ret.value.error = "no longer available (process crashed)"
                /\ r.ret.value.id = request_id

\* C8 witness: two sessions are live, the worker of the one that is not
\* current has exited, and an analysis call names that session
C8_Witness ==
    \E X \in DOMAIN sessions :
        /\ Cardinality(DOMAIN sessions) = 2
        /\ X # current_session_id
        /\ ~Healthy(sessions[X].process_port)
        /\ sessions[X].binary_path \in DOMAIN binary_to_session
        /\ sessions[X].process_port \in DOMAIN port_to_session
        /\ InList(lru_order, X)
        /\ handle_analysis_tool(State, 42, "decompile", ClientArguments(X),
                                "result").ret.value.from = "proxy"

\* C9: an analysis call that names a live session X with a healthy worker
\* is forwarded, as one request, to the worker on X's process_port, and one
\* without "session" to the worker of the current session; the forwarded
\* arguments are the client's without "session"; the response returned to
\* the client has the id of the client's request.
C9_RoutedToSessionWorker ==
    \A session_arg \in SessionIdInputs \cup {None}, reply \in AnalysisReplies,
       request_id \in RequestIds, tool_name \in AnalysisTools :
        LET X == TargetOf(session_arg) IN
        (X \in DOMAIN sessions /\ Healthy(sessions[X].process_port))
            =>
            LET r == handle_analysis_tool(State, request_id, tool_name,
                                          ClientArguments(session_arg), reply)
            IN  /\ Len(r.sent) = 1
                /\ r.sent[1].port = sessions[X].process_port
                /\ r.sent[1].name = tool_name
                /\ "session" \notin DOMAIN r.sent[1].arguments
                /\ r.sent[1].arguments = [addr |-> "0x401000"]
                /\ r.ret.kind = "return"
                /\ r.ret.value.id = request_id
                /\ (reply = "result") =>
                       (r.ret.value.from = "worker" /\ r.ret.value.body = reply)

\* C9 witness: two sessions on two healthy workers; a call naming the one
\* that is not current goes to its worker, not to the current session's
C9_Witness ==
    \E X \in DOMAIN sessions :
        /\ current_session_id \in DOMAIN sessions
        /\ X # current_session_id
        /\ Healthy(sessions[X].process_port)
        /\ Healthy(sessions[current_session_id].process_port)
        /\ sessions[X].process_port # sessions[current_session_id].process_port
        /\ LET r == handle_analysis_tool(State, 42, "decompile", ClientArguments(X), "result")
           IN  /\ r.sent[1].port = sessions[X].process_port
               /\ r.ret.value.id # ChildRequestId

\* C10: in every state at most one live session has is_current set, and a
\* live session has it set exactly if current_session_id names it; the
\* session a successful open_session or switch_session returns is that
\* current session.
C10_OneCurrent ==
    /\ Cardinality({ x \in DOMAIN sessions : sessions[x].is_current }) <= 1
    /\ \A x \in DOMAIN sessions : sessions[x].is_current <=> (current_session_id = x)
    /\ \A raw \in RawPaths, ready \in BOOLEAN, reply \in OpenReplies :
         \A pick \in AllocChoices(State) :
            LET r == open_session(State, raw, pick, ready, reply) IN
            (r.ret.kind = "return") =>
                /\ r.ret.value.is_current
                /\ r.current_session_id = r.ret.value.session_id
                /\ r.sessions[r.current_session_id] = r.ret.value
    /\ \A session_id \in SessionIdInputs :
            LET r == switch_session(State, session_id) IN
            (r.ret.kind = "return") =>
                /\ r.ret.value.is_current
                /\ r.current_session_id = r.ret.value.session_id
                /\ r.sessions[r.current_session_id] = r.ret.value

\* C10 witness: two live sessions, one of them current, and a switch to the
\* other hands the flag over
C10_Witness ==
    \E x, y \in DOMAIN sessions :
        /\ x # y
        /\ sessions[x].is_current
        /\ ~sessions[y].is_current
        /\ LET r == switch_session(State, y) IN
           /\ r.sessions[y].is_current
           /\ ~r.sessions[x].is_current

\* the sessions still live when open_session inserts the new one: those
\* live before the call without the ones the call evicted
LiveAtInsert(r) ==
    (DOMAIN sessions) \ { r.evicted[i].session_id : i \in 1 .. Len(r.evicted) }

\* C11: a successful open_session of an existing binary that is not in the
\* registry returns an id of the form <basename>-<worker session id> that
\* no session live at that moment has, and overwrites no entry of the
\* session map: the map has one entry more than the sessions that were live.
C11_SessionIdsUnique ==
    \A raw \in RawPaths, ready \in BOOLEAN, reply \in OpenReplies :
        \A pick \in AllocChoices(State) :
            LET r == open_session(State, raw, pick, ready, reply) IN
            (/\ ~IsOpen(Resolve(raw))
             /\ Resolve(raw) \notin DOMAIN binary_to_session
             /\ r.ret.kind = "return")
                => /\ r.ret.value.session_id =
                          Basename(Resolve(raw)) \o "-" \o r.ret.value.ida_session_id
                   /\ r.ret.value.session_id \notin LiveAtInsert(r)
                   /\ DOMAIN r.sessions = LiveAtInsert(r) \cup {r.ret.value.session_id}
                   /\ Cardinality(DOMAIN r.sessions) = Cardinality(LiveAtInsert(r)) + 1

\* the scenario began with open_session(p) returning a session and went on
\* with a successful close_session of that session that does not terminate
OpenedThenClosed ==
    /\ Len(Calls) >= 2
    /\ Calls[1].ret.kind = "return"
    /\ Calls[2].arg = Calls[1].ret.value.session_id
    /\ Calls[2].ret.value = TRUE
    /\ ~Calls[2].env.terminate_process

\* C12: after open_session(p) and a non-terminating close_session of its
\* session, the worker of that session is in the pool with no session bound
\* to it; the next open_session of an existing binary (p or another one)
\* sends one fresh idalib_open for that binary to that worker, spawns no
\* worker and evicts no session, and when it succeeds its session is on
\* that worker with the worker session id of the new reply.
C12_ReopenUsesIdleWorker ==
    LET port == Calls[1].ret.value.process_port IN
    /\ (OpenedThenClosed /\ Len(Calls) = 2)
          => /\ ProcIndex(State, port) # 0
             /\ port \notin DOMAIN port_to_session
             /\ get_idle_port(State) = port
    /\ (OpenedThenClosed /\ Len(Calls) = 3 /\ PathExists(Resolve(Calls[3].arg)))
          => /\ Calls[3].sent = <<[port |-> port] @@ OpenRequest(Resolve(Calls[3].arg))>>
             /\ Calls[3].started = <<>>
             /\ Calls[3].evicted = <<>>
             /\ (Calls[3].env.reply.kind \in {"ok", "ok_no_id"}) =>
                    /\ Calls[3].ret.kind = "return"
                    /\ Calls[3].ret.value.process_port = port
                    /\ Calls[3].ret.value.binary_path = Resolve(Calls[3].arg)
             /\ (Calls[3].env.reply.kind = "ok") =>
                    Calls[3].ret.value.ida_session_id = Calls[3].env.reply.session_id

\* C12 witness: p opened with worker session id A, closed without
\* terminating, and p opened again, now with worker session id B
C12_Witness ==
    /\ OpenedThenClosed /\ Completed /\ Len(Calls) = 3
    /\ Resolve(Calls[3].arg) = Resolve(Calls[1].arg)
    /\ Calls[1].ret.value.ida_session_id = "A"
    /\ Calls[3].ret.value.ida_session_id = "B"
    /\ Cardinality(DOMAIN sessions) = 1

C14_CloseRemovesAndPromotes ==
    \A S \in DOMAIN sessions, terminate_process \in BOOLEAN :
        LET r == close_session(State, S, terminate_process) IN
        /\ r.ret.value = TRUE
        /\ S \notin DOMAIN r.sessions
        /\ DOMAIN r.sessions = (DOMAIN sessions) \ {S}
        /\ sessions[S].binary_path \notin DOMAIN r.binary_to_session
        /\ sessions[S].process_port \notin DOMAIN r.port_to_session
        /\ ~InList(r.lru_order, S)
        /\ r.lru_order = ListRemove(lru_order, S)
        /\ (current_session_id # S) => r.current_session_id = current_session_id
        /\ (current_session_id = S /\ DOMAIN r.sessions = {}) =>
               r.current_session_id = None
        /\ (current_session_id = S /\ DOMAIN r.sessions # {}) =>
               /\ Len(r.lru_order) > 0
               /\ r.current_session_id = r.lru_order[Len(r.lru_order)]
               /\ r.current_session_id \in DOMAIN r.sessions
               /\ r.sessions[r.current_session_id].is_current

\* C14 witness: three live sessions, the current one, which is not the
\* most recently opened, is closed, and of the two that are left the one
\* at the tail of the LRU order, not the one at its front, becomes current
C14_Witness ==
    \E S \in DOMAIN sessions :
        /\ Cardinality(DOMAIN sessions) = 3
        /\ current_session_id = S
        /\ LET r == close_session(State, S, FALSE) IN
           /\ Len(r.lru_order) = 2
           /\ r.current_session_id = r.lru_order[2]
           /\ r.current_session_id # r.lru_order[1]
           /\ r.sessions[r.current_session_id].is_current

\* the call left the registry and the pool as they were
RegistryAndPoolUnchanged(r) ==
    /\ r.sessions = sessions
    /\ r.binary_to_session = binary_to_session
    /\ r.port_to_session = port_to_session
    /\ r.lru_order = lru_order
    /\ r.last_accessed = last_accessed
    /\ r.current_session_id = current_session_id
    /\ r.processes = processes
    /\ r.available_ports = available_ports
    /\ r.next_port = next_port
    /\ r.default_port = default_port

\* the call did nothing to the outside
NothingDone(r) ==
    /\ r.sent = <<>>
    /\ r.started = <<>>
    /\ r.stopped = <<>>
    /\ r.terminated = <<>>
    /\ r.evicted = <<>>

\* C15: for a session id that names no live session, close_session returns
\* False, switch_session raises ValueError (SessionNotFound) and an analysis
\* call with session = that id returns an isError tool response; each of
\* the three leaves the registry and the pool unchanged and sends nothing.
C15_UnknownSessionChangesNothing ==
    \A session_id \in SessionIdInputs \ DOMAIN sessions :
        /\ \A terminate_process \in BOOLEAN :
              LET r == close_session(State, session_id, terminate_process) IN
              /\ r.ret = [kind |-> "return", value |-> FALSE]
              /\ RegistryAndPoolUnchanged(r) /\ NothingDone(r)
        /\ LET r == switch_session(State, session_id) IN
              /\ r.ret = [kind |-> "raise", value |-> "ValueError"]
              /\ RegistryAndPoolUnchanged(r) /\ NothingDone(r)
        /\ \A reply \in AnalysisReplies, request_id \in RequestIds, tool_name \in AnalysisTools :
              LET r == handle_analysis_tool(State, request_id, tool_name,
                                            ClientArguments(session_id), reply) IN
              /\ r.ret.kind = "return"
              /\ "isError" \in DOMAIN r.ret.value
              /\ r.ret.value.isError
              /\ r.ret.value.error = "Session not found"
              /\ r.ret.value.id = request_id
              /\ RegistryAndPoolUnchanged(r) /\ NothingDone(r)

\* C15 witness: a current session lives on a healthy worker, a second id is
\* still in an index although its session is gone, and an analysis call
\* names that id
C15_Witness ==
    \E session_id \in SessionIdInputs \ DOMAIN sessions :
        /\ session_id # "nonexistent"
        /\ current_session_id \in DOMAIN sessions
        /\ Healthy(sessions[current_session_id].process_port)
        /\ handle_analysis_tool(State, 42, "decompile", ClientArguments(session_id),
                                "result").ret.value.error = "Session not found"

\* every thread has returned from open_session with a session
AllReturned ==
    /\ \A t \in DOMAIN threads : threads[t].pc = "done"
    /\ Len(Calls) = NumThreads
    /\ \A i \in 1 .. Len(Calls) : Calls[i].ret.kind = "return"

\* the calls that put an idalib_open for path p on the wire
OpensSentFor(p) ==
    { i \in 1 .. Len(Calls) :
        \E k \in 1 .. Len(Calls[i].sent) :
            /\ Calls[i].sent[k].name = "idalib_open"
            /\ Calls[i].sent[k].arguments.input_path = p }

\* C16: when the concurrent open_session calls all name the same binary,
\* not open before, and all return, then in every interleaving exactly one
\* live session is on that binary, exactly one call has sent an idalib_open
\* for it, and all calls returned the same session id.
C16_ConcurrentOpensMakeOneSession ==
    (/\ AllReturned
     /\ \A t \in DOMAIN threads : threads[t].binary_path = threads[1].binary_path)
        => LET p == threads[1].binary_path IN
           /\ Cardinality({ x \in DOMAIN sessions : sessions[x].binary_path = p }) = 1
           /\ Cardinality(DOMAIN sessions) = 1
           /\ Cardinality(OpensSentFor(p)) = 1
           /\ \A i \in OpensSentFor(p) : Len(Calls[i].sent) = 1
           /\ \A i, j \in 1 .. Len(Calls) :
                  Calls[i].ret.value.session_id = Calls[j].ret.value.session_id

\* C16 witness: the threads named the same binary by different spellings,
\* the thread that resolved its path last took the lock first, and all
\* returned
C16_Witness ==
    /\ AllReturned
    /\ \A t \in DOMAIN threads : threads[t].binary_path = PathOf(1)
    /\ threads[1].raw # threads[2].raw
    /\ Calls[1].env.thread = 2
    /\ Calls[2].sent = <<>>

\* the ids in a list
ListIds(l) == { l[i] : i \in 1 .. Len(l) }

\* C17: when the worker's reply to idalib_open is anything but a success
\* with a session id, open_session raises RuntimeError (OpenFailed) and
\* creates no session: the session map, the two indexes and the LRU order
\* get no new entry and the current session is not a new one.
C17_ReplyWithoutIdFailsOpen ==
    \A raw \in RawPaths, ready \in BOOLEAN, reply \in OpenReplies :
        \A pick \in AllocChoices(State) :
            LET r == open_session(State, raw, pick, ready, reply) IN
            (ConsultsWorker(raw) /\ reply.kind # "ok")
                => /\ r.ret = [kind |-> "raise", value |-> "RuntimeError"]
                   /\ DOMAIN r.sessions \subseteq DOMAIN sessions
                   /\ DOMAIN r.binary_to_session \subseteq DOMAIN binary_to_session
                   /\ DOMAIN r.port_to_session \subseteq DOMAIN port_to_session
                   /\ ListIds(r.lru_order) \subseteq ListIds(lru_order)
                   /\ r.current_session_id \in (DOMAIN sessions) \cup {None, current_session_id}

\* C17 for the replies other than a success without a session id and a
\* body that is not JSON: transport failure, JSON-RPC error, success false
C17_RefusedReplyFailsOpen ==
    \A raw \in RawPaths, ready \in BOOLEAN, reply \in OpenReplies :
        \A pick \in AllocChoices(State) :
            LET r == open_session(State, raw, pick, ready, reply) IN
            (ConsultsWorker(raw) /\ reply.kind \in {"http_fail", "rpc_error", "not_success"})
                => /\ r.ret = [kind |-> "raise", value |-> "RuntimeError"]
                   /\ DOMAIN r.sessions \subseteq DOMAIN sessions
                   /\ DOMAIN r.binary_to_session \subseteq DOMAIN binary_to_session
                   /\ DOMAIN r.port_to_session \subseteq DOMAIN port_to_session
                   /\ ListIds(r.lru_order) \subseteq ListIds(lru_order)

\* C18: open_session of a path whose file does not exist raises
\* FileNotFoundError (BinaryNotFound) before it selects a worker: it spawns
\* and stops no worker, evicts no session, sends nothing, and leaves the
\* registry and the pool unchanged.
C18_MissingBinaryChangesNothing ==
    \A raw \in RawPaths, ready \in BOOLEAN, reply \in OpenReplies :
        \A pick \in AllocChoices(State) :
            (Resolve(raw) \notin ExistingPaths)
                => LET r == open_session(State, raw, pick, ready, reply) IN
                   /\ r.ret = [kind |-> "raise", value |-> "FileNotFoundError"]
                   /\ RegistryAndPoolUnchanged(r)
                   /\ NothingDone(r)

\* C18 witness: the registry is at capacity with two sessions, so that an
\* open that went on to select a worker would evict, and the missing file
\* is opened
C18_Witness ==
    /\ max_processes = 2
    /\ AtCapacity
    /\ Len(lru_order) = 2
    /\ open_session(State, <<MissingPath, "abs">>, next_port, TRUE,
                    [kind |-> "ok", session_id |-> "A"]).ret.value = "FileNotFoundError"

\* the response is a JSON-RPC error with this code
IsJsonRpcError(response, code) ==
    /\ "isError" \notin DOMAIN response
    /\ "error" \in DOMAIN response
    /\ response.error.code = code

\* C19: when the HTTP exchange with a healthy worker fails, the client
\* gets a JSON-RPC error with code -32000, for an analysis tools/call and
\* for any other method forwarded to the worker of the current session.
C19_ForwardFailureIsJsonRpcError ==
    /\ \A session_arg \in SessionIdInputs \cup {None},
          request_id \in RequestIds, tool_name \in AnalysisTools :
          LET X == TargetOf(session_arg) IN
          (X \in DOMAIN sessions /\ Healthy(sessions[X].process_port))
              => IsJsonRpcError(handle_analysis_tool(State, request_id, tool_name,
                                    ClientArguments(session_arg), "http_fail").ret.value,
                                ForwardFailedCode)
    /\ \A request_id \in RequestIds, method \in OtherMethods :
          (/\ current_session_id \in DOMAIN sessions
           /\ Healthy(sessions[current_session_id].process_port))
              => IsJsonRpcError(forward_to_current(State,
                                    [id |-> request_id, method |-> method],
                                    "http_fail").ret.value,
                                ForwardFailedCode)

\* the part of C19 the router does implement: a method other than
\* tools/call whose forwarding to the healthy worker of the current session
\* fails is answered with the JSON-RPC error -32000 under the client's
\* request id, and the request did go to that worker
C19_OtherMethodFailureIsJsonRpcError ==
    \A request_id \in RequestIds, method \in OtherMethods :
        (/\ current_session_id \in DOMAIN sessions
         /\ Healthy(sessions[current_session_id].process_port))
            => LET request == [id |-> request_id, method |-> method]
                   r == forward_to_current(State, request, "http_fail")
               IN  /\ IsJsonRpcError(r.ret.value, ForwardFailedCode)
                   /\ r.ret.value.id = request_id
                   /\ r.sent = <<[port |-> sessions[current_session_id].process_port]
                                  @@ request>>
                   /\ RegistryAndPoolUnchanged(r)

\* what the router does for an analysis tools/call whose forwarding to a
\* healthy worker fails: an isError tool response, no JSON-RPC error
C19_AnalysisFailureIsToolError ==
    \A session_arg \in SessionIdInputs \cup {None},
       request_id \in RequestIds, tool_name \in AnalysisTools :
        LET X == TargetOf(session_arg) IN
        (X \in DOMAIN sessions /\ Healthy(sessions[X].process_port))
            => LET v == handle_analysis_tool(State, request_id, tool_name,
                            ClientArguments(session_arg), "http_fail").ret.value
               IN  /\ "isError" \in DOMAIN v
                   /\ v.isError
                   /\ v.id = request_id

\* the tool list the worker reported to the router for a logged tools/list
\* call: the list of the reply if a request went out and was answered with
\* a result, no tool if it was answered without a result, else the list
\* cached from the default worker
ReportedTools(e) ==
    IF e.sent # <<>> /\ e.env.reply.kind = "result" THEN e.env.reply.tools
    ELSE IF e.sent # <<>> /\ e.env.reply.kind = "error" THEN <<>>
    ELSE e.env.cached

\* the tool carries a name the proxy reserves for its session tools
HasSessionToolName(tool) == "name" \in DOMAIN tool /\ tool.name \in SESSION_TOOLS

\* the tool is not one of the proxy's session tools
HasOtherName(tool) == ~HasSessionToolName(tool)

\* `out` is the worker's tool `tool` with the optional string input
\* property "session" added and nothing else changed
IsWithSession(out, tool) ==
    LET schema == IF "inputSchema" \in DOMAIN tool THEN tool.inputSchema ELSE EmptyDict
        props  == IF "properties" \in DOMAIN schema THEN schema.properties ELSE EmptyDict
    IN  /\ DOMAIN out = DOMAIN tool \cup {"inputSchema"}
        /\ \A k \in DOMAIN tool \ {"inputSchema"} : out[k] = tool[k]
        /\ DOMAIN out.inputSchema = DOMAIN schema \cup {"properties"}
        /\ \A k \in DOMAIN schema \ {"properties"} : out.inputSchema[k] = schema[k]
        /\ DOMAIN out.inputSchema.properties = DOMAIN props \cup {"session"}
        /\ \A k \in DOMAIN props \ {"session"} : out.inputSchema.properties[k] = props[k]
        /\ out.inputSchema.properties["session"].type = "string"
        /\ \/ "required" \notin DOMAIN out.inputSchema
           \/ "session" \notin out.inputSchema.required

\* C20: the result of tools/list holds each of the five session-tool
\* schemas exactly once, and besides them exactly the worker-reported tools
\* whose name is not a session-tool name, in the worker's order, each with
\* the optional string input property "session" added; no worker tool with
\* a session-tool name is in the result.
C20_ToolsListRewrite ==
    \A i \in 1 .. Len(history) :
        history[i].op = "tools_list" =>
            LET e        == history[i]
                out      == e.ret.value.tools
                reported == ReportedTools(e)
                kept     == SelectSeq(reported, HasOtherName)
                others   == SelectSeq(out, HasOtherName)
            IN  /\ e.ret.kind = "return"
                /\ e.ret.value.id = e.env.request_id
                /\ \A name \in SESSION_TOOLS :
                      Cardinality({j \in 1 .. Len(out) : out[j] = SESSION_TOOL_SCHEMAS[name]}) = 1
                /\ \A j \in 1 .. Len(out) :
                      HasSessionToolName(out[j]) => out[j] = SESSION_TOOL_SCHEMAS[out[j].name]
                /\ Len(out) = Cardinality(SESSION_TOOLS) + Len(kept)
                /\ Len(others) = Len(kept)
                /\ \A j \in 1 .. Len(kept) : IsWithSession(others[j], kept[j])

\* C20 witness: a healthy worker answered tools/list with its own
\* idalib_open and an analysis tool; the result has six tools, the sixth
\* being the analysis tool with "session" added
C20_Witness ==
    \E i \in 1 .. Len(history) :
        /\ history[i].op = "tools_list"
        /\ history[i].sent # <<>>
        /\ history[i].env.reply.kind = "result"
        /\ Len(history[i].env.reply.tools) = 2
        /\ HasSessionToolName(history[i].env.reply.tools[1])
        /\ "name" \in DOMAIN history[i].env.reply.tools[2]
        /\ history[i].env.reply.tools[2].name = "decompile"
        /\ Len(history[i].ret.value.tools) = 6
        /\ history[i].ret.value.tools[6].name = "decompile"
        /\ "session" \in DOMAIN history[i].ret.value.tools[6].inputSchema.properties

\* the ports handed out by the logged calls, in the order of the calls
RECURSIVE HandedOutUpTo(_)
HandedOutUpTo(n) ==
    IF n = 0 THEN <<>>
    ELSE IF HandedOut(history[n]) = NoPort THEN HandedOutUpTo(n - 1)
    ELSE Append(HandedOutUpTo(n - 1), HandedOut(history[n]))

\* no logged call gave a port back: no release_port, no failed start, no
\* stop of a spawned worker
NoRelease == \A i \in 1 .. Len(history) : GivenBack(history[i]) = {}

\* the port was allocated in none of the first n logged calls
FreshAt(port, n) ==
    \A i \in 1 .. n :
        HandedOut(history[i]) # port /\ AllocatedForStart(history[i]) # port

\* C21: allocate_port never returns a port that a worker in the pool holds
\* or that was handed out and not given back; as long as no port was given
\* back the ports handed out are BASE_PORT, BASE_PORT + 1, ... in this
\* order; and a port that was released is returned by allocate_port before
\* any port that was never handed out.
C21_PortsDistinctAndRecycled ==
    /\ \A pick \in AllocChoices(State) :
          LET a == allocate_port(State, pick) IN
          /\ a.ret.value \notin Held
          /\ ProcIndex(State, a.ret.value) = 0
          /\ available_ports # {} =>
                (a.ret.value \in available_ports /\ a.next_port = next_port)
    /\ NoRelease =>
          HandedOutUpTo(Len(history))
              = [k \in 1 .. Len(HandedOutUpTo(Len(history))) |-> BASE_PORT + k - 1]
    /\ \A i \in 1 .. Len(history), j \in 1 .. Len(history) :
          \A p \in GivenBack(history[i]) :
              (/\ i < j
               /\ HandedOut(history[j]) # NoPort
               /\ FreshAt(HandedOut(history[j]), j - 1))
                  => \E k \in (i + 1) .. (j - 1) : HandedOut(history[k]) = p

\* C21 witness: two ports were handed out, the first was released, and the
\* next allocation returned the released port, not BASE_PORT + 2
C21_Witness ==
    /\ Len(history) = 4
    /\ history[1].op = "allocate_port" /\ history[1].ret.value = BASE_PORT
    /\ history[2].op = "start_process" /\ history[2].ret.kind = "return"
    /\ history[2].ret.value = BASE_PORT + 1
    /\ history[3].op = "release_port" /\ history[3].arg = BASE_PORT
    /\ history[4].op = "allocate_port" /\ history[4].ret.value = BASE_PORT
    /\ next_port = BASE_PORT + 2

\* the positions in the log of the steps `name` of shutdown()
StepsOf(name) == {i \in 1 .. Len(history) : history[i].op = name}

\* some call of shutdown() has returned after running its steps
ShutdownComplete == \E t \in ShutdownThreads : threads[t].pc = "complete"

C23_NothingLeftAfterShutdown ==
    ShutdownComplete =>
        /\ DOMAIN sessions = {}
        /\ \A i \in 1 .. Len(processes) :
              processes[i].external \/ ~processes[i].alive

\* the HTTP server stops accepting requests before close_all begins: no
\* request is accepted once shutdown() has set its flag
C23_StopsAcceptingFirst ==
    shutdown_called => ~(ENABLED Accept)

\* the idle workers: the ports of the pool without an entry in the port index
IdlePorts == {active_ports(State)[i] : i \in 1 .. Len(processes)} \ DOMAIN port_to_session

\* C24: an open_session of an existing binary that is not in the registry
\* follows the three priorities.  If an idle worker exists the request goes
\* to an idle worker and nothing is spawned or evicted; a worker is spawned
\* only if there is no idle worker and the pool holds fewer than
\* max_processes workers; a session is evicted only if there is no idle
\* worker and the pool holds at least max_processes workers; at most one
\* session is evicted.
C24_ThreeTierPriority ==
    \A raw \in RawPaths, ready \in BOOLEAN, reply \in OpenReplies :
        \A pick \in AllocChoices(State) :
            (PathExists(Resolve(raw)) /\ Resolve(raw) \notin DOMAIN binary_to_session)
                =>
                LET r == open_session(State, raw, pick, ready, reply) IN
                /\ IdlePorts # {} =>
                      /\ r.started = <<>>
                      /\ r.evicted = <<>>
                      /\ r.stopped = <<>>
                      /\ \A i \in 1 .. Len(r.sent) : r.sent[i].port \in IdlePorts
                      /\ r.ret.kind = "return" => r.ret.value.process_port \in IdlePorts
                      /\ DOMAIN sessions \subseteq DOMAIN r.sessions
                /\ r.started # <<>> =>
                      /\ IdlePorts = {}
                      /\ process_count(State) < max_processes
                      /\ r.evicted = <<>>
                      /\ Len(r.started) = 1
                /\ r.evicted # <<>> =>
                      /\ IdlePorts = {}
                      /\ process_count(State) >= max_processes
                      /\ r.started = <<>>
                      /\ Len(r.evicted) = 1
                      /\ r.evicted[1].session_id = lru_order[1]
                /\ (IdlePorts = {} /\ process_count(State) < max_processes /\ ready)
                      => r.started # <<>>

\* C24 witness: at the cap with one idle worker and one bound worker, a new
\* binary is opened: it goes to the idle worker, and the live session stays
C24_Witness ==
    /\ max_processes = 2
    /\ Len(processes) = 2
    /\ Cardinality(IdlePorts) = 1
    /\ Cardinality(DOMAIN sessions) = 1
    /\ \E raw \in RawPaths :
          /\ PathExists(Resolve(raw))
          /\ Resolve(raw) \notin DOMAIN binary_to_session
          /\ LET r == open_session(State, raw, next_port, TRUE,
                                   [kind |-> "ok", session_id |-> "B"])
             IN  /\ r.ret.kind = "return"
                 /\ r.ret.value.process_port \in IdlePorts
                 /\ r.started = <<>>
                 /\ r.evicted = <<>>
                 /\ Cardinality(DOMAIN r.sessions) = 2

\* C25: the port index and the sessions' process_port are mutual inverses:
\* the index maps port p to session S exactly if S is a live session whose
\* process_port is p.  So no two live sessions are on the same port and no
\* entry of the index names a session that is gone.
C25_PortIndexInverse ==
    /\ \A p \in DOMAIN port_to_session :
          /\ port_to_session[p] \in DOMAIN sessions
          /\ sessions[port_to_session[p]].process_port = p
    /\ \A x \in DOMAIN sessions :
          /\ sessions[x].process_port \in DOMAIN port_to_session
          /\ port_to_session[sessions[x].process_port] = x

\* C26: the LRU order holds every live session id exactly once and no id
\* that is not in the session map.
C26_LruMatchesSessions ==
    /\ \A x \in DOMAIN sessions :
          Cardinality({i \in 1 .. Len(lru_order) : lru_order[i] = x}) = 1
    /\ \A i \in 1 .. Len(lru_order) : lru_order[i] \in DOMAIN sessions

\* C26 witness: two sessions are live, and a switch to the one at the front
\* of the LRU order moves it to the tail without duplicating it
C26_Witness ==
    /\ Cardinality(DOMAIN sessions) = 2
    /\ Len(lru_order) = 2
    /\ lru_order[1] # lru_order[2]
    /\ switch_session(State, lru_order[1]).lru_order = <<lru_order[2], lru_order[1]>>

\* C27: every key of the binary index is the binary_path of exactly one live
\* session, the one the key maps to, and the binary_path of every live
\* session is a key of the index.
C27_BinaryIndexMatchesSessions ==
    /\ \A b \in DOMAIN binary_to_session :
          /\ binary_to_session[b] \in DOMAIN sessions
          /\ sessions[binary_to_session[b]].binary_path = b
          /\ Cardinality({x \in DOMAIN sessions : sessions[x].binary_path = b}) = 1
    /\ \A x \in DOMAIN sessions : sessions[x].binary_path \in DOMAIN binary_to_session

\* C28: the process_port of every live session is a key of the pool's
\* worker map.
C28_SessionPortInPool ==
    \A x \in DOMAIN sessions : ProcIndex(State, sessions[x].process_port) # 0

\* C28 witness: a worker was stopped (its port is free again) while a
\* session is live on the one worker left in the pool
C28_Witness ==
    /\ Cardinality(DOMAIN sessions) = 1
    /\ Len(processes) = 1
    /\ available_ports # {}
    /\ \A x \in DOMAIN sessions : processes[1].port = sessions[x].process_port

\* the ports of the workers in the pool map
PoolPorts == {active_ports(State)[i] : i \in 1 .. Len(processes)}

\* C29: after every completed pool operation no port of available_ports is
\* the port of a worker in the pool map, and when the operation stopped
\* spawned workers (stop_process, stop_all) their ports are in
\* available_ports.
C29_AvailablePortsDisjoint ==
    /\ available_ports \cap PoolPorts = {}
    /\ Len(history) > 0 =>
          LET e == history[Len(history)] IN
          e.op \in {"stop_process", "stop_all"} =>
              /\ \A i \in 1 .. Len(e.env.spawned) :
                    /\ e.env.spawned[i] \in available_ports
                    /\ e.env.spawned[i] \notin PoolPorts
              /\ Len(e.stopped) >= Len(e.env.spawned)

\* C29 witness: of two spawned workers one was stopped; its port is free
\* again and the other worker is still in the pool
C29_Witness ==
    /\ Len(history) = 3
    /\ history[1].op = "start_process" /\ history[1].ret.kind = "return"
    /\ history[2].op = "start_process" /\ history[2].ret.kind = "return"
    /\ history[3].op = "stop_process"
    /\ history[3].env.spawned = <<history[3].arg>>
    /\ history[3].arg \in available_ports
    /\ Len(processes) = 1

\* what a touch of the live session S may have done to reach r: S is the
\* tail of the LRU order and the most recently accessed session, the other
\* sessions keep their relative places in both orders, S is current and the
\* only one flagged current; every session keeps its id, binary, port and
\* worker session id, the set of sessions, both indexes and the pool are as
\* they were, and nothing was sent, started, stopped or evicted
OnlyTouched(r, S) ==
    /\ r.lru_order = ListRemove(lru_order, S) \o <<S>>
    /\ r.last_accessed = ListRemove(last_accessed, S) \o <<S>>
    /\ r.current_session_id = S
    /\ DOMAIN r.sessions = DOMAIN sessions
    /\ \A x \in DOMAIN sessions :
          r.sessions[x] = [sessions[x] EXCEPT !.is_current = (x = S)]
    /\ r.binary_to_session = binary_to_session
    /\ r.port_to_session = port_to_session
    /\ r.max_processes = max_processes
    /\ r.processes = processes
    /\ r.available_ports = available_ports
    /\ r.next_port = next_port
    /\ r.default_port = default_port
    /\ NothingDone(r)

\* C30: a touch of the live session S, by switch_session(S) or by
\* open_session of a binary whose binary index entry is S (the fast path),
\* moves S to the tail of the LRU order, renews S's last_accessed and makes
\* S current, and changes nothing else: every session's session_id,
\* binary_path and process_port, the set of live sessions, the binary and
\* port indexes and the pool are as before.
C30_TouchChangesOnlyRecency ==
    /\ \A S \in DOMAIN sessions :
          LET r == switch_session(State, S) IN
          /\ r.ret.kind = "return"
          /\ OnlyTouched(r, S)
    /\ \A raw \in RawPaths, ready \in BOOLEAN, reply \in OpenReplies :
          \A pick \in AllocChoices(State) :
              (/\ Resolve(raw) \in DOMAIN binary_to_session
               /\ binary_to_session[Resolve(raw)] \in DOMAIN sessions) =>
                  LET r == open_session(State, raw, pick, ready, reply) IN
                  /\ r.ret.kind = "return"
                  /\ OnlyTouched(r, binary_to_session[Resolve(raw)])

\* C30 witness: two sessions are live; the one at the front of the LRU
\* order, which is not current and not the most recently accessed, is
\* touched by switch_session and, through its binary, by a re-open, and
\* becomes the tail of the order and current
C30_Witness ==
    /\ Cardinality(DOMAIN sessions) = 2
    /\ Len(lru_order) = 2
    /\ lru_order[1] \in DOMAIN sessions
    /\ current_session_id = lru_order[2]
    /\ last_accessed = lru_order
    /\ switch_session(State, lru_order[1]).lru_order = <<lru_order[2], lru_order[1]>>
    /\ switch_session(State, lru_order[1]).current_session_id = lru_order[1]
    /\ \E raw \in RawPaths :
          /\ Resolve(raw) \in DOMAIN binary_to_session
          /\ binary_to_session[Resolve(raw)] = lru_order[1]
          /\ open_session(State, raw, next_port, TRUE,
                          [kind |-> "ok", session_id |-> "A"]).last_accessed
                 = <<lru_order[2], lru_order[1]>>

\* open_session of `raw` takes branch (b): the binary is not open, no worker
\* of the pool is idle and the pool is below max_processes
SpawnsFor(raw) ==
    /\ PathExists(Resolve(raw))
    /\ Resolve(raw) \notin DOMAIN binary_to_session
    /\ get_idle_port(State) = NoPort
    /\ process_count(State) < max_processes

\* the failed open stopped the worker it had spawned: the worker was
\* started, stopped and terminated once, its port is free again, the pool
\* map and the registry are as before the call
SpawnedWorkerStopped(r) ==
    /\ r.ret.kind = "raise"
    /\ Len(r.started) = 1
    /\ r.stopped = r.started
    /\ r.terminated = r.started
    /\ r.started[1] \in r.available_ports
    /\ r.processes = processes
    /\ r.sessions = sessions
    /\ r.binary_to_session = binary_to_session
    /\ r.port_to_session = port_to_session
    /\ r.lru_order = lru_order
    /\ r.current_session_id = current_session_id
    /\ r.evicted = <<>>

\* C31: when open_session fails after it spawned a worker in branch (b) (the
\* forward raised, the worker returned a JSON-RPC error, the result had
\* success # true, or the result could not be parsed), the freshly spawned
\* worker is stopped and its port released; the pool map and the registry
\* are as before the call.
C31_FailedOpenStopsSpawnedWorker ==
    \A raw \in RawPaths, reply \in OpenReplies :
        \A pick \in AllocChoices(State) :
            (SpawnsFor(raw)
                /\ reply.kind \in {"http_fail", "rpc_error", "not_success", "bad_json"})
                => SpawnedWorkerStopped(open_session(State, raw, pick, TRUE, reply))

\* C31 for the failures open_session handles itself: the forward raised,
\* the worker returned a JSON-RPC error, the result had success # true
C31_RefusedOpenStopsSpawnedWorker ==
    \A raw \in RawPaths, reply \in OpenReplies :
        \A pick \in AllocChoices(State) :
            (SpawnsFor(raw)
                /\ reply.kind \in {"http_fail", "rpc_error", "not_success"})
                => SpawnedWorkerStopped(open_session(State, raw, pick, TRUE, reply))

\* the worker replies with which open_session fails at idalib_open
FailedOpenReplies ==
    { reply \in OpenReplies :
        reply.kind \in {"http_fail", "rpc_error", "not_success", "bad_json"} }

\* open_session of `raw` takes branch (a): the binary is not open and a
\* worker of the pool is idle
ReusesIdle(raw) ==
    /\ PathExists(Resolve(raw))
    /\ Resolve(raw) \notin DOMAIN binary_to_session
    /\ get_idle_port(State) # NoPort

\* open_session of `raw` takes branch (c) and finds a session to evict
EvictsFor(raw) ==
    /\ PathExists(Resolve(raw))
    /\ Resolve(raw) \notin DOMAIN binary_to_session
    /\ get_idle_port(State) = NoPort
    /\ process_count(State) >= max_processes
    /\ Len(lru_order) > 0
    /\ lru_order[1] \in DOMAIN sessions

\* the call started, stopped and terminated no worker and left the pool map
\* as it was
PoolMapKept(r) ==
    /\ r.started = <<>>
    /\ r.stopped = <<>>
    /\ r.terminated = <<>>
    /\ r.processes = processes

\* branch (a) after a failed idalib_open: the registry is unchanged and the
\* worker is still in the pool, bound to no session
IdleReuseFailed(r) ==
    /\ PoolMapKept(r)
    /\ r.sessions = sessions
    /\ r.binary_to_session = binary_to_session
    /\ r.port_to_session = port_to_session
    /\ r.lru_order = lru_order
    /\ r.last_accessed = last_accessed
    /\ r.current_session_id = current_session_id
    /\ r.evicted = <<>>
    /\ get_idle_port(r) = get_idle_port(State)

\* branch (c) after a failed idalib_open: the session at the front of the
\* LRU order is gone from the session map, from the LRU order and from both
\* indexes, one session less is live, and its worker is still in the pool,
\* bound to no session
EvictionNotRolledBack(r) ==
    LET X == lru_order[1]
        S == sessions[X]
    IN  /\ PoolMapKept(r)
        /\ r.evicted = <<S>>
        /\ X \notin DOMAIN r.sessions
        /\ Cardinality(DOMAIN r.sessions) = Cardinality(DOMAIN sessions) - 1
        /\ ~InList(r.lru_order, X)
        /\ S.binary_path \notin DOMAIN r.binary_to_session
        /\ S.process_port \notin DOMAIN r.port_to_session
        /\ ProcIndex(r, S.process_port) # 0

PortInputs ==
    PoolPorts \cup available_ports \cup {BASE_PORT, next_port}

\* requests handed to forward_request
ForwardInputs ==
    { OpenRequest(PathOf(1)),
      [id |-> 1, method |-> "tools/list"] }

\* the pool has a handle for the port and the handle is of a spawned worker
\* whose process has exited
ExitedWorker(port) ==
    /\ ProcIndex(State, port) # 0
    /\ ~processes[ProcIndex(State, port)].external
    /\ ~processes[ProcIndex(State, port)].alive

\* the pool has a handle for the port and the handle is of an adopted,
\* external worker
ExternalWorker(port) ==
    /\ ProcIndex(State, port) # 0
    /\ processes[ProcIndex(State, port)].external

\* C33: forward_request to a port that has no handle in the pool, or whose
\* spawned process has exited, raises RuntimeError (WorkerUnhealthy), sends
\* no request and changes neither the pool nor the registry; for the handle
\* of an external (adopted) worker the health check is true and the request
\* is sent.
C33_UnhealthyForwardSendsNothing ==
    \A port \in PortInputs, request \in ForwardInputs :
        LET r == forward_request(State, port, request) IN
        /\ (ProcIndex(State, port) = 0 \/ ExitedWorker(port)) =>
              /\ ~check_process_health(State, port)
              /\ r.ret = [kind |-> "raise", value |-> "RuntimeError"]
              /\ RegistryAndPoolUnchanged(r)
              /\ NothingDone(r)
        /\ ExternalWorker(port) =>
              /\ check_process_health(State, port)
              /\ r.ret.kind = "return"
              /\ r.sent = <<[port |-> port] @@ request>>
              /\ RegistryAndPoolUnchanged(r)

\* C33 witness: the pool holds the handle of a spawned worker whose process
\* has exited, and next to it a port without a handle; a forward to either
\* raises and sends nothing
C33_Witness ==
    /\ \E port \in PoolPorts :
          /\ ExitedWorker(port)
          /\ port \in DOMAIN port_to_session
          /\ forward_request(State, port, OpenRequest(PathOf(1))).ret.kind = "raise"
          /\ forward_request(State, port, OpenRequest(PathOf(1))).sent = <<>>
    /\ next_port \notin PoolPorts
    /\ forward_request(State, next_port, OpenRequest(PathOf(1))).ret.kind = "raise"

\* the elements of a list are pairwise different
NoDuplicates(l) == \A i, j \in 1 .. Len(l) : l[i] = l[j] => i = j

\* the ports of the spawned workers of the pool whose process still runs
LiveSpawned ==
    SelectSeq(SpawnedAmong(State, active_ports(State)),
              LAMBDA q : processes[ProcIndex(State, q)].alive)

\* C34: stop_all leaves the pool map empty: every handle is taken out of
\* the map once; every spawned (non-external) worker is terminated once (the
\* signal goes to those whose process still runs) and its port released;
\* the handle of an external worker is dropped without a signal and without
\* releasing its port.  stop_process of a port without a handle returns
\* False and changes nothing.
C34_StopAllEmptiesPool ==
    /\ LET r == stop_all(State) IN
          /\ r.processes = <<>>
          /\ r.stopped = active_ports(State)
          /\ NoDuplicates(r.stopped)
          /\ r.terminated = LiveSpawned
          /\ \A port \in PoolPorts :
                IF ExternalWorker(port)
                THEN /\ ~InList(r.terminated, port)
                     /\ port \in r.available_ports <=> port \in available_ports
                ELSE port \in r.available_ports
          /\ r.available_ports
                = available_ports
                    \cup ListIds(SpawnedAmong(State, active_ports(State)))
          /\ r.next_port = next_port
    /\ \A port \in PortInputs \ PoolPorts :
          LET r == stop_process(State, port) IN
          /\ r.ret = [kind |-> "return", value |-> FALSE]
          /\ RegistryAndPoolUnchanged(r)
          /\ NothingDone(r)

\* C34 witness: an adopted external worker and two spawned workers were in
\* the pool when stop_all ran; the pool map is empty, three handles were
\* dropped, the two spawned workers were terminated and their ports are free
C34_Witness ==
    /\ Len(history) = 4
    /\ history[1].op = "ensure_default_process"
    /\ history[4].op = "stop_all"
    /\ Len(history[4].stopped) = 3
    /\ Len(history[4].terminated) = 2
    /\ default_port \notin ListIds(history[4].terminated)
    /\ processes = <<>>
    /\ Cardinality(available_ports) = 2

\* the handle start_process registers for a port
NewHandle(port) ==
    [ port |-> port, external |-> FALSE, alive |-> TRUE,
      binary_path |-> NoPath, current_ida_session |-> None ]

\* C35: start_process ends in one of two ways.  Either the child became
\* ready: the call returns, and the handle of the child is in the pool map
\* under the allocated port, which is not among the free ports.  Or it
\* raises RuntimeError (WorkerStartupFailed): the pool map is as before the
\* call and the allocated port is among the free ports; after a readiness
\* timeout the child has been terminated.  The registry is untouched either
\* way, and start_process told only whether the child became ready does to
\* the pool what start_process told the child's fate does.
C35_StartRegistersOrReleases ==
    \A child \in StartOutcomes :
        \A pick \in AllocChoices(State) :
            LET r    == start_process_child(State, pick, child)
                port == allocate_port(State, pick).ret.value
                b    == start_process(State, pick, child = "ready")
            IN  /\ port = pick
                /\ IF child = "ready"
                   THEN /\ r.ret = [kind |-> "return", value |-> port]
                        /\ r.processes = Append(processes, NewHandle(port))
                        /\ port \notin r.available_ports
                        /\ r.available_ports = available_ports \ {port}
                        /\ r.started = <<port>>
                        /\ r.terminated = <<>>
                   ELSE /\ r.ret = [kind |-> "raise", value |-> "RuntimeError"]
                        /\ r.processes = processes
                        /\ port \in r.available_ports
                        /\ r.available_ports = available_ports \cup {port}
                        /\ r.started = <<>>
                        /\ r.terminated = IF child = "timeout" THEN <<port>> ELSE <<>>
                /\ r.stopped = <<>>
                /\ r.sessions = sessions
                /\ r.binary_to_session = binary_to_session
                /\ r.port_to_session = port_to_session
                /\ b.ret = r.ret
                /\ b.processes = r.processes
                /\ b.available_ports = r.available_ports
                /\ b.next_port = r.next_port

\* C35 witness: a start_process succeeded and the next one failed; the pool
\* map holds the one worker and the port of the failed start is free
C35_Witness ==
    /\ Len(history) = 2
    /\ history[1].op = "start_process" /\ history[1].ret.kind = "return"
    /\ history[2].op = "start_process" /\ history[2].ret.kind = "raise"
    /\ Len(processes) = 1
    /\ processes[1].port = history[1].ret.value
    /\ history[2].env.port \in available_ports
    /\ history[2].env.port # processes[1].port
    /\ start_process_child(State, history[2].env.port, "timeout").terminated
          = <<history[2].env.port>>

\* thread t is about to ask for a lock that thread u holds
WaitsFor(t, u) ==
    /\ t # u
    /\ ~Finished(t)
    /\ threads[t].path[threads[t].pc].op = "acquire"
    /\ threads[u].held[threads[t].path[threads[t].pc].lock] > 0

\* C36: the registry lock is taken before the pool lock: no thread asks for
\* the registry lock while it holds the pool lock, at most one thread holds
\* a lock, and under no interleaving of concurrent requests (open, close,
\* switch, list, analysis call, crash clean-up) do two threads wait for
\* each other's lock (with two locks a longer cycle of waiting threads
\* cannot form); while a request is unfinished some thread can take a step.
C36_RegistryLockBeforePoolLock ==
    /\ \A t \in 1 .. NumThreads :
          (~Finished(t) /\ threads[t].held["pool"] > 0)
              => threads[t].path[threads[t].pc] # AcquireOf("registry")
    /\ \A t, u \in 1 .. NumThreads, lock \in {"registry", "pool"} :
          (threads[t].held[lock] > 0 /\ threads[u].held[lock] > 0) => t = u
    /\ \A t, u \in 1 .. NumThreads : ~(WaitsFor(t, u) /\ WaitsFor(u, t))
    /\ (\E t \in 1 .. NumThreads : ~Finished(t))
          => \E t \in 1 .. NumThreads :
                /\ ~Finished(t)
                /\ \A u \in 1 .. NumThreads : ~WaitsFor(t, u)

\* C36 witness: one thread, in open_session, holds the registry lock and
\* waits for the pool lock, which another thread, in the health check of an
\* analysis call, holds while holding no other lock
C36_Witness ==
    \E t, u \in 1 .. NumThreads :
        /\ t # u
        /\ threads[t].path \in open_session_locks
        /\ threads[t].held["registry"] > 0
        /\ WaitsFor(t, u)
        /\ threads[u].path \in handle_analysis_tool_locks
        /\ threads[u].held["pool"] > 0
        /\ threads[u].held["registry"] = 0

\* the thread sends the analysis request of the session it resolved: it
\* goes on from "session.touch()" and the worker on the session's port
\* passes the health check
Delivers ==
    /\ threads.pc = "resolved"
    /\ threads'.pc = "idle"
    /\ check_process_health(State, threads.session.process_port)

\* C37: under any interleaving of concurrent requests, an analysis
\* tools/call that resolved its target to session X goes out only to a
\* worker whose port is, at that moment, bound to X in the port index:
\* never to a worker that has meanwhile been given another binary because X
\* was evicted or closed and the worker reused by a concurrent open_session.
C37_DeliveredToBoundWorker ==
    [][Delivers =>
          /\ StillHeld(State, threads.session)
          /\ threads.session.process_port \in DOMAIN port_to_session
          /\ port_to_session[threads.session.process_port] = threads.session.session_id]_vars

\* C37 when no request of another thread ran since the session was
\* resolved: what the handler sends goes to the port of that session, which
\* is live, and the two halves of the handler together are
\* _handle_analysis_tool
C37_HandlerIsResolveThenDeliver ==
    \A request_id \in RequestIds, reply \in AnalysisReplies,
       session_arg \in SessionIdInputs \cup {None} :
        LET target == target_session_id(State, session_arg) IN
        target # None =>
            LET r == analysis_on_session(State, sessions[target], request_id, "decompile",
                         ArgumentsPopSession(ClientArguments(session_arg)), reply)
            IN  /\ r = handle_analysis_tool(State, request_id, "decompile",
                                            ClientArguments(session_arg), reply)
                /\ StillHeld(State, sessions[target])
                /\ \A i \in 1 .. Len(r.sent) :
                      r.sent[i].port = sessions[target].process_port

\* C38: after every completed registry operation, _current_session_id is
\* None exactly when no session is live, and otherwise it names a live
\* session, the one at the tail of the LRU order; so an open_session evicts
\* the current session only when that session is the only live one.
C38_CurrentIsLruTail ==
    /\ current_session_id = None <=> DOMAIN sessions = {}
    /\ current_session_id # None =>
          /\ current_session_id \in DOMAIN sessions
          /\ Len(lru_order) > 0
          /\ current_session_id = lru_order[Len(lru_order)]
    /\ \A raw \in RawPaths, ready \in BOOLEAN, reply \in OpenReplies :
          \A pick \in AllocChoices(State) :
              LET r == open_session(State, raw, pick, ready, reply) IN
              \A i \in 1 .. Len(r.evicted) :
                  r.evicted[i].session_id = current_session_id
                      => Cardinality(DOMAIN sessions) = 1

\* C38 witness: two sessions are live and the current one is the tail of
\* the LRU order; an open_session of a third binary at capacity evicts the
\* other one
C38_Witness ==
    /\ Cardinality(DOMAIN sessions) = 2
    /\ Len(lru_order) = 2
    /\ current_session_id = lru_order[2]
    /\ lru_order[1] # lru_order[2]
    /\ EvictsFor(<<PathOf(2), "abs">>)
    /\ LET r == open_session(State, <<PathOf(2), "abs">>, next_port, TRUE,
                             [kind |-> "ok", session_id |-> "A"])
       IN  /\ Len(r.evicted) = 1
           /\ r.evicted[1].session_id = lru_order[1]
           /\ r.current_session_id = r.lru_order[Len(r.lru_order)]

\* the listed sessions whose is_current is true
Flagged(result) ==
    { id \in DOMAIN result.sessions : result.sessions[id].is_current }

\* an idalib_list result is a consistent snapshot: count is the number of
\* sessions listed; current_session_id is null when no listed session is
\* flagged current, and else the id of the one listed session that is
ConsistentSnapshot(result) ==
    /\ result.count = Cardinality(DOMAIN result.sessions)
    /\ IF Flagged(result) = {}
       THEN result.current_session_id = None
       ELSE /\ Cardinality(Flagged(result)) = 1
            /\ \E id \in Flagged(result) :
                  result.current_session_id = result.sessions[id].session_id

\* C39: under any interleaving with concurrent open, close and switch
\* requests, every idalib_list response is a consistent snapshot.
C39_ListIsConsistentSnapshot ==
    [][(threads.pc = "listed" /\ threads'.pc = "idle")
          => ConsistentSnapshot(idalib_list_result(threads.sessions, State))]_vars

\* C39 when no request of another thread runs between list_sessions and
\* get_current_session: the response is a consistent snapshot
C39_UninterruptedListIsConsistent ==
    ConsistentSnapshot(handle_idalib_list(State))

\* the idalib_open requests among the requests a call sent
OpensSent(r) == SelectSeq(r.sent, LAMBDA q : q.name = "idalib_open")

\* C40: open_session sends idalib_open to a worker only when no session is
\* bound to, and no live session runs on, that worker's port at that
\* moment, and it sends at most one.  When the worker is reused through
\* eviction, the idalib_close for the evicted session's worker session id
\* goes to that worker before the idalib_open of the new binary, and the
\* evicted session is out of the session map and of the port index before
\* the new session is inserted under that port.
C40_OpenOnlyOnUnboundWorker ==
    \A raw \in RawPaths, ready \in BOOLEAN, reply \in OpenReplies :
        \A pick \in AllocChoices(State) :
            LET r   == open_session(State, raw, pick, ready, reply)
                sel == select_port(State, pick, ready)
            IN  /\ Len(OpensSent(r)) <= 1
                /\ ~ConsultsWorker(raw) => OpensSent(r) = <<>>
                /\ (ConsultsWorker(raw) /\ OpensSent(r) # <<>>) =>
                      LET port == OpensSent(r)[1].port IN
                      /\ ~Raised(sel)
                      /\ port = sel.ret.value.port
                      /\ port \notin DOMAIN sel.port_to_session
                      /\ \A id \in DOMAIN sel.sessions :
                            sel.sessions[id].process_port # port
                      /\ r.evicted # <<>> =>
                            LET gone == r.evicted[1] IN
                            /\ Len(r.evicted) = 1
                            /\ gone.process_port = port
                            /\ r.sent = <<[port |-> port] @@ CloseRequest(gone),
                                          [port |-> port] @@ OpenRequest(Resolve(raw))>>
                            /\ gone.session_id \notin DOMAIN sel.sessions
                            /\ r.ret.kind = "return" =>
                                  /\ r.port_to_session[port] = r.ret.value.session_id
                                  /\ r.sessions[r.ret.value.session_id].binary_path
                                        = Resolve(raw)

\* C40 witness: at capacity with two sessions on two healthy workers, the
\* open of a third binary evicts the least recently used session and sends
\* idalib_close, then idalib_open, to its worker
C40_Witness ==
    /\ max_processes = 2
    /\ Cardinality(DOMAIN sessions) = 2
    /\ EvictsFor(<<PathOf(2), "abs">>)
    /\ LET r == open_session(State, <<PathOf(2), "abs">>, next_port, TRUE,
                             [kind |-> "ok", session_id |-> "B"])
       IN  /\ r.ret.kind = "return"
           /\ Len(r.sent) = 2
           /\ r.sent[1].name = "idalib_close"
           /\ r.sent[2].name = "idalib_open"
           /\ r.sent[1].port = r.sent[2].port
           /\ r.sent[1].arguments.session_id = sessions[lru_order[1]].ida_session_id
           /\ r.port_to_session[r.sent[2].port] = r.ret.value.session_id

====
